---- MODULE Spec2Model ----
(***************************************************************************)
(* A model of the kernel registry / gate-dispatch engine                   *)
(* (DynamicDispatcher.hpp), of the vector-Jacobian-product engine          *)
(* (JacobianProd.hpp) and of the managed state vector                      *)
(* (StateVectorLQubitManaged.hpp) of pennylane-lightning.                  *)
(*                                                                         *)
(* Every public method is one action.  A call runs to completion inside    *)
(* its action; what the caller can observe of the last call (how it ended, *)
(* which callables ran, the buffer before and after) is kept in the        *)
(* variables call, outcome, invoked, pre and data.                         *)
(*                                                                         *)
(* The gate kernels are applied directly to a buffer in SpecKernels, the   *)
(* initialisation before main is followed by the dispatch calls of main in *)
(* SpecProcess, and several threads share the dispatcher in SpecThreads.   *)
(***************************************************************************)
EXTENDS Integers, Sequences, FiniteSets, TLC

VARIABLES
    str_to_gates_,  \* DynamicDispatcher::str_to_gates_ : gate name -> GateOperation
    gates_,         \* DynamicDispatcher::gates_    : (GateOperation, KernelType) -> GateFunc
    matrices_,      \* DynamicDispatcher::matrices_ : (MatrixOperation, KernelType) -> MatrixFunc
    str_to_gntrs_,  \* DynamicDispatcher::str_to_gntrs_ : generator name -> GeneratorOperation
    generators_,    \* DynamicDispatcher::generators_ : (GeneratorOperation, KernelType) -> GeneratorFunc
    returned,       \* the value the last call returned to its caller
    pending,        \* the registrations the initialisation before main has still to make
    data,           \* the caller's amplitude buffer after the last call
    pre,            \* the same buffer as it was handed to the last call
    call,           \* the last call: entry point and arguments
    outcome,        \* how the last call ended
    invoked,        \* the callables the last call ran, in order, with their arguments
    finds,          \* the registry keys the last call looked up, in order
    ub,             \* the undefined behaviour the last call ran into
    vjp,            \* the caller's vjp vector after the last VJP call
    jac,            \* the caller's jac matrix after the last VJP call
    vcall,          \* the last VJP call: entry point and arguments
    voutcome,       \* how the last VJP call ended
    adjointCalls,   \* number of adjointJacobianTape runs made by the last VJP call
    vub,            \* the undefined behaviour the last VJP call ran into
    data_,          \* StateVectorLQubitManaged::data_ : the amplitudes
    num_qubits_,    \* the qubit count the base class was constructed with
    alive,          \* a state vector object exists
    scall,          \* the last state vector call: entry point, arguments, data_ before
    soutcome,       \* how the last state vector call ended
    outside,        \* (offset, value) pairs the last call wrote past the end of data_
    sub,            \* the undefined behaviour the last state vector call ran into
    gntr_name,      \* the name last handed to removeGeneratorPrefix
    stripped,       \* what removeGeneratorPrefix returned for it
    applied,        \* the gates a kernel test has applied to its buffer, in order
    states,         \* the test's buffer: as created, and after each of these gates
    tbuf,           \* each thread's own amplitude buffer
    talone,         \* what each thread's buffer would hold had its calls run alone
    tpend,          \* where each thread is inside its dispatcher call
    frozen          \* the tables and name maps as they were when the threads started

gvars == <<str_to_gntrs_, generators_, returned, pending>>
dvars == <<str_to_gates_, gates_, matrices_, data, pre, call, outcome, invoked,
           finds, ub, gvars>>
vvars == <<vjp, jac, vcall, voutcome, adjointCalls, vub>>
svars == <<data_, num_qubits_, alive, scall, soutcome, outside, sub>>
pvars == <<gntr_name, stripped>>
kvars == <<applied, states>>
tvars == <<tbuf, talone, tpend, frozen>>
extra == <<pvars, kvars, tvars>>
vars == <<str_to_gates_, gates_, matrices_, data, pre, call, outcome, invoked,
          finds, ub, vjp, jac, vcall, voutcome, adjointCalls, vub,
          data_, num_qubits_, alive, scall, soutcome, outside, sub,
          str_to_gntrs_, generators_, returned, pending, gntr_name, stripped, applied, states,
          tbuf, talone, tpend, frozen>>

----------------------------------------------------------------------------
(* Bounds *)

NumQubits == 3      \* qubits of the buffers handed to the dispatcher
MaxReg == 3         \* registrations made on one dispatcher
MaxOps == 2         \* longest list handed to applyOperations
MaxLen == 2         \* longest dy / vjp, most observables and trainable parameters
MaxQubits == 1      \* most qubits of a state vector object
MaxWrites == 2      \* longest index / value list handed to setStateVector
MaxParts == 3       \* most pieces a name handed to removeGeneratorPrefix is made of

----------------------------------------------------------------------------
(* Enumerations and name tables *)

\* enum class KernelType { PI, LM, None }
KernelType == {"PI", "LM", "None"}

\* Constant::kernels_to_pyexport: the kernels that are ever registered
kernels_to_pyexport == {"PI", "LM"}

\* Gates::GateOperation, restricted to two single-wire gates; the enumerators
\* are numbers, the names are strings.
GateOperation == {0, 1}

\* Gates::Constant::gate_names : (GateOperation, name) pairs
gate_names == << <<0, "PauliX">>, <<1, "PauliZ">> >>

\* Names a caller may pass; the last one names no gate.
OpNames == {"PauliX", "PauliZ", "NoSuchGate"}

\* Gates::MatrixOperation
MatrixOperation == {"SingleQubitOp", "TwoQubitOp", "MultiQubitOp"}

----------------------------------------------------------------------------
(* Buffers and kernels *)

RECURSIVE Pow2(_)
Pow2(k) == IF k = 0 THEN 1 ELSE 2 * Pow2(k - 1)

\* Util::exp2
exp2(k) == Pow2(k)

BufLen == Pow2(NumQubits)

\* create_zero_state / a computational basis state
BasisState(idx) == [i \in 0 .. BufLen - 1 |-> IF i = idx THEN 1 ELSE 0]

\* The buffers callers hand in.
Buffers == {BasisState(BufLen - 1)}

\* Bit of amplitude index i addressed by wire w: wire 0 is the most
\* significant bit (st[0b1 << (num_qubits - index - 1)] in the tests).
WireBit(i, w) == (i \div Pow2(NumQubits - 1 - w)) % 2

\* FlipWire with wire 0 as the least significant bit.
FlipWire_littleEndian(i, w) ==
    IF (i \div Pow2(w)) % 2 = 1 THEN i - Pow2(w) ELSE i + Pow2(w)

FlipWire(i, w) ==
    IF WireBit(i, w) = 1 THEN i - Pow2(NumQubits - 1 - w)
                         ELSE i + Pow2(NumQubits - 1 - w)

\* GateImplementation::applyPauliX
applyPauliX(buf, wires) == [i \in DOMAIN buf |-> buf[FlipWire(i, wires[1])]]

\* GateImplementation::applyPauliZ
applyPauliZ(buf, wires) ==
    [i \in DOMAIN buf |-> IF WireBit(i, wires[1]) = 1 THEN 0 - buf[i] ELSE buf[i]]

\* An amplitude (a + b * sqrt(2)) / 2^m, as <<a, b, m>> in lowest terms.
RECURSIVE Normalised(_)
Normalised(x) ==
    IF x[3] > 0 /\ x[1] % 2 = 0 /\ x[2] % 2 = 0
    THEN Normalised(<<x[1] \div 2, x[2] \div 2, x[3] - 1>>)
    ELSE x

AmpZero == <<0, 0, 0>>
AmpOne == <<1, 0, 0>>

\* Util::INVSQRT2: 1 / sqrt(2) = sqrt(2) / 2
INVSQRT2 == <<0, 1, 1>>

AmpAdd(x, y) ==
    LET m == IF x[3] > y[3] THEN x[3] ELSE y[3]
    IN  Normalised(<<x[1] * Pow2(m - x[3]) + y[1] * Pow2(m - y[3]),
                     x[2] * Pow2(m - x[3]) + y[2] * Pow2(m - y[3]), m>>)

AmpNeg(x) == <<0 - x[1], 0 - x[2], x[3]>>

\* x * INVSQRT2
AmpInvSqrt2(x) == Normalised(<<2 * x[2], x[1], x[3] + 1>>)

\* create_zero_state: |0...0> with exact amplitudes
ZeroState == [i \in 0 .. BufLen - 1 |-> IF i = 0 THEN AmpOne ELSE AmpZero]

\* A buffer whose amplitudes all differ.
CountingState == [i \in 0 .. BufLen - 1 |-> <<i + 1, 0, 0>>]

\* Index i with the bit of wire w set to bit.
SetWire(i, w, bit) == IF WireBit(i, w) = bit THEN i ELSE FlipWire(i, w)

\* GateImplementation::applyHadamard
applyHadamard(buf, wires) ==
    [i \in DOMAIN buf |->
        LET lo == buf[SetWire(i, wires[1], 0)]
            hi == buf[SetWire(i, wires[1], 1)]
        IN  IF WireBit(i, wires[1]) = 0 THEN AmpInvSqrt2(AmpAdd(lo, hi))
            ELSE AmpInvSqrt2(AmpAdd(lo, AmpNeg(hi)))]

\* applyCNOT reading its wires as (target, control).
applyCNOT_swapped(buf, wires) ==
    [i \in DOMAIN buf |->
        buf[IF WireBit(i, wires[2]) = 1 THEN FlipWire(i, wires[1]) ELSE i]]

\* GateImplementation::applyCNOT, wires = (control, target)
applyCNOT(buf, wires) ==
    [i \in DOMAIN buf |->
        buf[IF WireBit(i, wires[1]) = 1 THEN FlipWire(i, wires[2]) ELSE i]]

\* applySWAP that moves the amplitudes one way only.
applySWAP_oneWay(buf, wires) ==
    [i \in DOMAIN buf |->
        IF WireBit(i, wires[1]) = 0 /\ WireBit(i, wires[2]) = 1
        THEN buf[SetWire(SetWire(i, wires[1], 1), wires[2], 0)]
        ELSE buf[i]]

\* GateImplementation::applySWAP
applySWAP(buf, wires) ==
    [i \in DOMAIN buf |->
        buf[SetWire(SetWire(i, wires[1], WireBit(i, wires[2])),
                    wires[2], WireBit(i, wires[1]))]]

\* The callables that can be registered as GateFunc: each implementation
\* (impl) of each gate is a callable of its own.
GateFuncs == [impl : kernels_to_pyexport, gate : {"PauliX", "PauliZ"}]

\* The callables registered for a gate operation: an implementation of that gate.
GateFuncsOf(gate_op) ==
    {f \in GateFuncs : \E i \in 1 .. Len(gate_names) :
                          gate_names[i] = <<gate_op, f.gate>>}

\* (iter->second)(data, num_qubits, wires, inverse, params) for a GateFunc
CallGateFunc(f, buf, wires, inverse, params) ==
    IF f.gate = "PauliX" THEN applyPauliX(buf, wires) ELSE applyPauliZ(buf, wires)

\* Wire lists for a single-wire gate.
GateWires == {<<w>> : w \in 0 .. NumQubits - 1}

\* Bits of amplitude index i at the wires ws, ws[1] the most significant.
RECURSIVE SubIndex(_, _)
SubIndex(i, ws) ==
    IF ws = <<>> THEN 0
    ELSE 2 * SubIndex(i, SubSeq(ws, 1, Len(ws) - 1)) + WireBit(i, ws[Len(ws)])

\* Amplitude index i with its bits at the wires ws replaced by the bits of c.
RECURSIVE WithBits(_, _, _)
WithBits(i, ws, c) ==
    IF ws = <<>> THEN i
    ELSE LET w == ws[Len(ws)]
             j == IF WireBit(i, w) = c % 2 THEN i ELSE FlipWire(i, w)
         IN  WithBits(j, SubSeq(ws, 1, Len(ws) - 1), c \div 2)

\* Entry (r, c) of a row-major dim x dim matrix; inverse takes the adjoint
\* (the entries here are real).
MatEntry(matrix, dim, r, c, inverse) ==
    IF inverse THEN matrix[c * dim + r + 1] ELSE matrix[r * dim + c + 1]

RECURSIVE RowSum(_, _, _, _, _, _)
RowSum(buf, matrix, ws, inverse, i, c) ==
    IF c < 0 THEN 0
    ELSE MatEntry(matrix, Pow2(Len(ws)), SubIndex(i, ws), c, inverse)
            * buf[WithBits(i, ws, c)]
         + RowSum(buf, matrix, ws, inverse, i, c - 1)

\* A matrix kernel: the 2^k x 2^k matrix applied to the k wires.
applyMatrixKernel(buf, matrix, ws, inverse) ==
    [i \in DOMAIN buf |-> RowSum(buf, matrix, ws, inverse, i, Pow2(Len(ws)) - 1)]

\* The callables that can be registered as MatrixFunc.
MatrixFuncs == [impl : kernels_to_pyexport, mat : MatrixOperation]

\* The callables registered for a matrix class: an implementation of that class.
MatrixFuncsOf(mat_op) == {f \in MatrixFuncs : f.mat = mat_op}

\* (iter->second)(data, num_qubits, matrix, wires, inverse) for a MatrixFunc
CallMatrixFunc(f, buf, matrix, wires, inverse) ==
    applyMatrixKernel(buf, matrix, wires, inverse)

\* The dense matrix a caller passes for k wires: the negated cyclic shift of
\* the 2^k basis states, row-major.
ShiftMatrix(k) ==
    [p \in 1 .. Pow2(2 * k) |->
        IF (p - 1) \div Pow2(k) = (((p - 1) % Pow2(k)) + 1) % Pow2(k)
        THEN 0 - 1 ELSE 0]

\* Wire lists for applyMatrix: the first k wires, k = 0 .. NumQubits.
MatrixWires == {[j \in 1 .. k |-> j - 1] : k \in 0 .. NumQubits}

----------------------------------------------------------------------------
(* DynamicDispatcher *)

\* How a call can end: normally, with one of the exceptions the dispatcher
\* throws (told apart by their text), or with the process killed.
OK == "ok"
NotRegistered == "invalid_argument: is not registered for the given kernel"
MatrixSize == "invalid_argument: The size of matrix does not match"
ListLengths == "invalid_argument: number of operations, wires, and parameters"
OutOfRange == "out_of_range"
Crash == "crash"

\* Undefined behaviour a call can run into.
DerefEnd == "dereference of matrices_.end()"
InverseOutOfRange == "read of inverse[i] past its end"

\* Nothing was returned (a void function, or an exception left the call).
NoValue == "void"

EmptyMap == [x \in {} |-> x]

\* insert_or_assign in the place of emplace: the last callable wins.
Emplace_assign(m, k, v) == [x \in DOMAIN m \cup {k} |-> IF x = k THEN v ELSE m[x]]

\* std::unordered_map::emplace: inserts unless the key is present
Emplace(m, k, v) == IF k \in DOMAIN m THEN m ELSE m @@ (k :> v)

\* BuildStrToGates pairing every name with the first operation of the table.
BuildStrToGates_firstOp(i) ==
    [name \in {gate_names[k][2] : k \in 1 .. i} |-> gate_names[1][1]]

\* DynamicDispatcher(): str_to_gates_.emplace(gate_name, gate_op) over the
\* first i pairs of gate_names
RECURSIVE BuildStrToGates(_)
BuildStrToGates(i) ==
    IF i = 0 THEN EmptyMap
    ELSE Emplace(BuildStrToGates(i - 1), gate_names[i][2], gate_names[i][1])

\* Names are sequences of characters where the code looks inside them.
Str_Generator == <<"G", "e", "n", "e", "r", "a", "t", "o", "r">>
Str_RX == <<"R", "X">>
Str_RZ == <<"R", "Z">>

\* Gates::GeneratorOperation
GeneratorOperation == {0, 1}

\* Gates::Constant::generator_names
generator_names == << <<0, Str_Generator \o Str_RX>>, <<1, Str_Generator \o Str_RZ>> >>

\* The 0-based offsets at which part occurs in str.
Occurrences(str, part) ==
    {i \in 0 .. Len(str) - Len(part) : SubSeq(str, i + 1, i + Len(part)) = part}

\* std::string_view::rfind(part): <<offset of the last occurrence>>, <<>> for npos
rfind(str, part) ==
    LET occ == Occurrences(str, part)
    IN  IF occ = {} THEN <<>>
        ELSE <<CHOOSE i \in occ : \A j \in occ : j <= i>>

\* std::string_view::substr(pos)
substr(str, pos) == SubSeq(str, pos + 1, Len(str))

\* removeGeneratorPrefix(op_name)
removeGeneratorPrefix(name) ==
    IF rfind(name, Str_Generator) # <<0>> THEN name
    ELSE substr(name, Len(Str_Generator))

\* DynamicDispatcher(): str_to_gntrs_.emplace(removeGeneratorPrefix(gntr_name),
\* gntr_op) over the first i pairs of generator_names
RECURSIVE BuildStrToGntrs(_)
BuildStrToGntrs(i) ==
    IF i = 0 THEN EmptyMap
    ELSE Emplace(BuildStrToGntrs(i - 1), removeGeneratorPrefix(generator_names[i][2]),
                 generator_names[i][1])

\* What a call leaves behind.
Ret(o, buf, inv, fnd, u) ==
    [outcome |-> o, data |-> buf, invoked |-> inv, finds |-> fnd, ub |-> u]

Invocation(f, wires, inverse) == [f |-> f, wires |-> wires, inverse |-> inverse]

\* GateKey with the variant dropped from the key.
GateKey_noKernel(gate_op, kernel) == <<gate_op, "PI">>

\* The key of the gate table: std::make_pair(gate_op, kernel)
GateKey(gate_op, kernel) == <<gate_op, kernel>>

\* applyOperation falling back to another variant of the gate when the
\* requested one is not registered.
applyOperation_op_fallback(kernel, buf, gate_op, wires, inverse, params) ==
    LET key == GateKey(gate_op, kernel)
        others == {k \in DOMAIN gates_ : k[1] = gate_op}
    IN  IF key \notin DOMAIN gates_ /\ others = {}
        THEN Ret(NotRegistered, buf, <<>>, <<key>>, {})
        ELSE LET use == IF key \in DOMAIN gates_ THEN key
                        ELSE CHOOSE k \in others : TRUE
             IN  Ret(OK, CallGateFunc(gates_[use], buf, wires, inverse, params),
                     <<Invocation(gates_[use], wires, inverse)>>, <<key>>, {})

\* applyOperation(kernel, data, num_qubits, gate_op, wires, inverse, params)
applyOperation_op(kernel, buf, gate_op, wires, inverse, params) ==
    LET key == GateKey(gate_op, kernel)
    IN  IF key \notin DOMAIN gates_
        THEN Ret(NotRegistered, buf, <<>>, <<key>>, {})
        ELSE Ret(OK, CallGateFunc(gates_[key], buf, wires, inverse, params),
                 <<Invocation(gates_[key], wires, inverse)>>, <<key>>, {})

\* applyOperation(kernel, data, num_qubits, op_name, wires, inverse, params);
\* strToGateOp is str_to_gates_.at(op_name), which throws std::out_of_range
applyOperation_str(kernel, buf, op_name, wires, inverse, params) ==
    IF op_name \notin DOMAIN str_to_gates_
    THEN Ret(OutOfRange, buf, <<>>, <<>>, {})
    ELSE LET key == GateKey(str_to_gates_[op_name], kernel)
         IN  IF key \notin DOMAIN gates_
             THEN Ret(NotRegistered, buf, <<>>, <<key>>, {})
             ELSE Ret(OK, CallGateFunc(gates_[key], buf, wires, inverse, params),
                      <<Invocation(gates_[key], wires, inverse)>>, <<key>>, {})

\* The callables a kernel offers for generators: GeneratorFunc.
GeneratorFuncs == [impl : kernels_to_pyexport, gntr : {Str_RX, Str_RZ}]

\* The callables registered for a generator operation.
GeneratorFuncsOf(gntr_op) ==
    {f \in GeneratorFuncs : \E i \in 1 .. Len(generator_names) :
                               generator_names[i] = <<gntr_op, Str_Generator \o f.gntr>>}

\* The scaling factor a generator callable returns.
ScaleOf(f) == <<"scale", f.impl, f.gntr>>

\* (iter->second)(data, num_qubits, wires, adj) for a GeneratorFunc: the
\* generator of RX applies PauliX, that of RZ applies PauliZ.
CallGeneratorFunc(f, buf, wires, adj) ==
    IF f.gntr = Str_RX THEN applyPauliX(buf, wires) ELSE applyPauliZ(buf, wires)

\* What an applyGenerator call leaves behind, and what it returns.
GRet(r, value) == [ret |-> r, returned |-> value]

\* applyGenerator looking the generator up in the gate table.
applyGenerator_op_gateTable(kernel, buf, gntr_op, wires, adj) ==
    LET key == <<gntr_op, kernel>>
    IN  IF key \notin DOMAIN gates_
        THEN GRet(Ret(NotRegistered, buf, <<>>, <<key>>, {}), NoValue)
        ELSE LET f == [impl |-> gates_[key].impl,
                       gntr |-> IF gates_[key].gate = "PauliX" THEN Str_RX ELSE Str_RZ]
             IN  GRet(Ret(OK, CallGeneratorFunc(f, buf, wires, adj),
                          <<Invocation(f, wires, adj)>>, <<key>>, {}),
                      ScaleOf(f))

\* applyGenerator(kernel, data, num_qubits, gntr_op, wires, adj)
applyGenerator_op(kernel, buf, gntr_op, wires, adj) ==
    LET key == <<gntr_op, kernel>>
    IN  IF key \notin DOMAIN generators_
        THEN GRet(Ret(NotRegistered, buf, <<>>, <<key>>, {}), NoValue)
        ELSE GRet(Ret(OK, CallGeneratorFunc(generators_[key], buf, wires, adj),
                      <<Invocation(generators_[key], wires, adj)>>, <<key>>, {}),
                  ScaleOf(generators_[key]))

\* applyGenerator(kernel, data, num_qubits, op_name, wires, adj);
\* strToGeneratorOp is str_to_gntrs_.at(op_name), which throws std::out_of_range
applyGenerator_str(kernel, buf, name, wires, adj) ==
    IF name \notin DOMAIN str_to_gntrs_
    THEN GRet(Ret(OutOfRange, buf, <<>>, <<>>, {}), NoValue)
    ELSE applyGenerator_op(kernel, buf, str_to_gntrs_[name], wires, adj)

\* MatrixClass without the case for two wires.
MatrixClass_noTwo(n_wires) ==
    CASE n_wires = 1 -> "SingleQubitOp"
      [] OTHER -> "MultiQubitOp"

\* The matrix class applyMatrix looks up: switch (n_wires)
MatrixClass(n_wires) ==
    CASE n_wires = 1 -> "SingleQubitOp"
      [] n_wires = 2 -> "TwoQubitOp"
      [] OTHER -> "MultiQubitOp"

\* applyMatrix(kernel, data, num_qubits, const complex *matrix, wires, inverse).
\* With no entry under the key the throw expression reads (iter->first).first
\* through matrices_.end(): the build either still throws or is killed.
applyMatrix_ptr(kernel, buf, matrix, wires, inverse) ==
    LET key == <<MatrixClass(Len(wires)), kernel>>
    IN  IF key \notin DOMAIN matrices_
        THEN {Ret(o, buf, <<>>, <<key>>, {DerefEnd}) : o \in {NotRegistered, Crash}}
        ELSE {Ret(OK, CallMatrixFunc(matrices_[key], buf, matrix, wires, inverse),
                  <<Invocation(matrices_[key], wires, inverse)>>, <<key>>, {})}

\* applyMatrix_vec refusing only a matrix that is too small.
applyMatrix_vec_atLeast(kernel, buf, matrix, wires, inverse) ==
    IF Len(matrix) < exp2(2 * Len(wires))
    THEN {Ret(MatrixSize, buf, <<>>, <<>>, {})}
    ELSE applyMatrix_ptr(kernel, buf, matrix, wires, inverse)

\* applyMatrix(kernel, data, num_qubits, const vector<complex> &matrix, wires, inverse)
applyMatrix_vec(kernel, buf, matrix, wires, inverse) ==
    IF Len(matrix) # exp2(2 * Len(wires))
    THEN {Ret(MatrixSize, buf, <<>>, <<>>, {})}
    ELSE applyMatrix_ptr(kernel, buf, matrix, wires, inverse)

\* applyOperation(data, num_qubits, op_name, wires, inverse, params): the
\* overload applyOperations calls, which takes no kernel; dk is the kernel the
\* dispatcher uses for it.
applyOperation_nokernel(dk, buf, op_name, wires, inverse, params) ==
    applyOperation_str(dk, buf, op_name, wires, inverse, params)

\* What reading inverse[i] past the end of inverse can do.
OobReads == {"TRUE", "FALSE", "crash"}

\* for (i = 0; i < numOperations; i++) applyOperation(data, num_qubits, ops[i],
\* wires[i], inverse[i], params[i]): the iterations from i on; acc is what the
\* earlier ones left.  An exception ends the loop.
RECURSIVE applyOperationsLoop(_, _, _, _, _, _, _, _)
applyOperationsLoop(dk, acc, ops, wires, inverse, params, i, oob) ==
    IF i > Len(ops) THEN acc
    ELSE IF i > Len(inverse) /\ oob = "crash"
    THEN Ret(Crash, acc.data, acc.invoked, acc.finds, acc.ub \cup {InverseOutOfRange})
    ELSE LET inv == IF i <= Len(inverse) THEN inverse[i] ELSE oob = "TRUE"
             u == IF i <= Len(inverse) THEN {} ELSE {InverseOutOfRange}
             step == applyOperation_nokernel(dk, acc.data, ops[i], wires[i], inv,
                                             params[i])
             nxt == Ret(step.outcome, step.data, acc.invoked \o step.invoked,
                        acc.finds \o step.finds, acc.ub \cup u \cup step.ub)
         IN  IF step.outcome # OK THEN nxt
             ELSE applyOperationsLoop(dk, nxt, ops, wires, inverse, params, i + 1, oob)

\* The length check of applyOperations(data, num_qubits, ops, wires, inverse, params)
LengthsDiffer(ops, wires, inverse, params) ==
    Len(ops) # Len(wires) \/ Len(ops) # Len(params)

\* applyOperations that puts the buffer back as it was when an operation fails.
applyOperations_rollback(dk, buf, ops, wires, inverse, params, oob) ==
    IF LengthsDiffer(ops, wires, inverse, params)
    THEN Ret(ListLengths, buf, <<>>, <<>>, {})
    ELSE LET r == applyOperationsLoop(dk, Ret(OK, buf, <<>>, <<>>, {}), ops, wires,
                                      inverse, params, 1, oob)
         IN  IF r.outcome = OK THEN r
             ELSE Ret(r.outcome, buf, r.invoked, r.finds, r.ub)

\* applyOperations(data, num_qubits, ops, wires, inverse, params)
applyOperations(dk, buf, ops, wires, inverse, params, oob) ==
    IF LengthsDiffer(ops, wires, inverse, params)
    THEN Ret(ListLengths, buf, <<>>, <<>>, {})
    ELSE applyOperationsLoop(dk, Ret(OK, buf, <<>>, <<>>, {}), ops, wires, inverse,
                             params, 1, oob)

\* The length check of applyOperations(data, num_qubits, ops, wires, inverse)
LengthsDiffer_noparams(ops, wires, inverse) == Len(ops) # Len(wires)

\* applyOperations(data, num_qubits, ops, wires, inverse): every operation is
\* given the empty parameter list
applyOperations_noparams(dk, buf, ops, wires, inverse, oob) ==
    IF LengthsDiffer_noparams(ops, wires, inverse)
    THEN Ret(ListLengths, buf, <<>>, <<>>, {})
    ELSE applyOperationsLoop(dk, Ret(OK, buf, <<>>, <<>>, {}), ops, wires, inverse,
                             [i \in 1 .. Len(ops) |-> <<>>], 1, oob)

----------------------------------------------------------------------------
(* The dispatcher's actions *)

SeqsUpTo(S, n) == UNION {[1 .. k -> S] : k \in 0 .. n}

\* The lists callers hand to applyOperations.
BatchOps == SeqsUpTo(OpNames, MaxOps)
BatchWires == SeqsUpTo({<<0>>}, MaxOps)
BatchInverse == SeqsUpTo({FALSE}, MaxOps)
BatchParams == SeqsUpTo({<<>>}, MaxOps)

Call(api, kernel, target, wires, inverse, msize, lens) ==
    [api |-> api, kernel |-> kernel, target |-> target, wires |-> wires,
     inverse |-> inverse, msize |-> msize, lens |-> lens]

NoCall == Call("none", "None", <<>>, <<>>, FALSE, 0, <<>>)

\* A registration: the callable handed over, and whether the key had an entry.
RegCall(api, kernel, op, func, had) ==
    [api |-> api, kernel |-> kernel, target |-> op, wires |-> <<>>,
     inverse |-> FALSE, msize |-> 0, lens |-> <<>>, func |-> func, had |-> had]

Finish(r) ==
    /\ data' = r.data
    /\ outcome' = r.outcome
    /\ invoked' = r.invoked
    /\ finds' = r.finds
    /\ ub' = r.ub

Entries ==
    Cardinality(DOMAIN gates_) + Cardinality(DOMAIN matrices_)
        + Cardinality(DOMAIN generators_)

\* The caller is between two calls.
Idle == call.api = "none"

\* What no dispatcher call touches.
RestStill == UNCHANGED <<vvars, svars, extra>>

\* What no gate or matrix call touches.
VStill == RestStill /\ UNCHANGED gvars

\* The dispatcher after its constructor, whatever is still to be registered.
DConstructed ==
    /\ str_to_gates_ = BuildStrToGates(Len(gate_names))
    /\ gates_ = EmptyMap
    /\ matrices_ = EmptyMap
    /\ data \in Buffers
    /\ pre = data
    /\ call = NoCall
    /\ outcome = OK
    /\ invoked = <<>>
    /\ finds = <<>>
    /\ ub = {}
    /\ str_to_gntrs_ = BuildStrToGntrs(Len(generator_names))
    /\ generators_ = EmptyMap
    /\ returned = NoValue

DInit ==
    /\ DConstructed
    /\ pending = <<>>

\* registerGateOperation(gate_op, kernel, func)
RegisterGateOperation ==
    /\ Idle
    /\ \E gate_op \in GateOperation, kernel \in kernels_to_pyexport :
      \E func \in GateFuncsOf(gate_op) :
        /\ Entries < MaxReg \/ GateKey(gate_op, kernel) \in DOMAIN gates_
        /\ gates_' = Emplace(gates_, GateKey(gate_op, kernel), func)
        /\ call' = RegCall("registerGateOperation", kernel, gate_op, func,
                           GateKey(gate_op, kernel) \in DOMAIN gates_)
        /\ UNCHANGED <<str_to_gates_, matrices_, data, pre, outcome, invoked,
                       finds, ub>>
        /\ VStill

\* registerMatrixOperation(mat_op, kernel, func)
RegisterMatrixOperation ==
    /\ Idle
    /\ \E mat_op \in MatrixOperation, kernel \in kernels_to_pyexport :
      \E func \in MatrixFuncsOf(mat_op) :
        /\ Entries < MaxReg \/ <<mat_op, kernel>> \in DOMAIN matrices_
        /\ matrices_' = Emplace(matrices_, <<mat_op, kernel>>, func)
        /\ call' = RegCall("registerMatrixOperation", kernel, mat_op, func,
                           <<mat_op, kernel>> \in DOMAIN matrices_)
        /\ UNCHANGED <<str_to_gates_, gates_, data, pre, outcome, invoked,
                       finds, ub>>
        /\ VStill

ApplyOperationStr ==
    /\ Idle
    /\ \E kernel \in KernelType, buf \in Buffers, op_name \in OpNames,
       wires \in GateWires, inverse \in BOOLEAN :
        /\ pre' = buf
        /\ call' = Call("applyOperation_str", kernel, op_name, wires, inverse, 0, <<>>)
        /\ Finish(applyOperation_str(kernel, buf, op_name, wires, inverse, <<>>))
        /\ UNCHANGED <<str_to_gates_, gates_, matrices_>>
        /\ VStill

ApplyOperationOp ==
    /\ Idle
    /\ \E kernel \in KernelType, buf \in Buffers, gate_op \in GateOperation,
       wires \in GateWires, inverse \in BOOLEAN :
        /\ pre' = buf
        /\ call' = Call("applyOperation_op", kernel, gate_op, wires, inverse, 0, <<>>)
        /\ Finish(applyOperation_op(kernel, buf, gate_op, wires, inverse, <<>>))
        /\ UNCHANGED <<str_to_gates_, gates_, matrices_>>
        /\ VStill

ApplyOperations ==
    /\ Idle
    /\ \E dk \in kernels_to_pyexport, buf \in Buffers, ops \in BatchOps,
       wires \in BatchWires, inverse \in BatchInverse, params \in BatchParams,
       oob \in OobReads :
        /\ pre' = buf
        /\ call' = Call("applyOperations", dk, ops, wires, inverse, 0,
                        <<Len(ops), Len(wires), Len(inverse), Len(params)>>)
        /\ Finish(applyOperations(dk, buf, ops, wires, inverse, params, oob))
        /\ UNCHANGED <<str_to_gates_, gates_, matrices_>>
        /\ VStill

ApplyOperationsNoParams ==
    /\ Idle
    /\ \E dk \in kernels_to_pyexport, buf \in Buffers, ops \in BatchOps,
       wires \in BatchWires, inverse \in BatchInverse, oob \in OobReads :
        /\ pre' = buf
        /\ call' = Call("applyOperations_noparams", dk, ops, wires, inverse, 0,
                        <<Len(ops), Len(wires), Len(inverse)>>)
        /\ Finish(applyOperations_noparams(dk, buf, ops, wires, inverse, oob))
        /\ UNCHANGED <<str_to_gates_, gates_, matrices_>>
        /\ VStill

ApplyMatrixPtr ==
    /\ Idle
    /\ \E kernel \in KernelType, buf \in Buffers, wires \in MatrixWires,
       inverse \in BOOLEAN :
      \E r \in applyMatrix_ptr(kernel, buf, ShiftMatrix(Len(wires)), wires, inverse) :
        /\ pre' = buf
        /\ call' = Call("applyMatrix_ptr", kernel, <<>>, wires, inverse,
                        Pow2(2 * Len(wires)), <<>>)
        /\ Finish(r)
        /\ UNCHANGED <<str_to_gates_, gates_, matrices_>>
        /\ VStill

ApplyMatrixVec ==
    /\ Idle
    /\ \E kernel \in KernelType, buf \in Buffers, wires \in MatrixWires,
       k \in 0 .. NumQubits, inverse \in BOOLEAN :
      \E r \in applyMatrix_vec(kernel, buf, ShiftMatrix(k), wires, inverse) :
        /\ pre' = buf
        /\ call' = Call("applyMatrix_vec", kernel, <<>>, wires, inverse,
                        Pow2(2 * k), <<>>)
        /\ Finish(r)
        /\ UNCHANGED <<str_to_gates_, gates_, matrices_>>
        /\ VStill

\* registerGeneratorOperation(gntr_op, kernel, func)
RegisterGeneratorOperation ==
    /\ Idle
    /\ \E gntr_op \in GeneratorOperation, kernel \in kernels_to_pyexport :
      \E func \in GeneratorFuncsOf(gntr_op) :
        /\ Entries < MaxReg \/ <<gntr_op, kernel>> \in DOMAIN generators_
        /\ generators_' = Emplace(generators_, <<gntr_op, kernel>>, func)
        /\ call' = RegCall("registerGeneratorOperation", kernel, gntr_op, func,
                           <<gntr_op, kernel>> \in DOMAIN generators_)
        /\ UNCHANGED <<str_to_gates_, gates_, matrices_, data, pre, outcome, invoked,
                       finds, ub, str_to_gntrs_, returned, pending>>
        /\ RestStill

\* The names handed to applyGenerator: with and without the prefix, and unknown.
GeneratorNames == {Str_RX, Str_RZ, Str_Generator \o Str_RX, <<"N", "o">>}

\* The wire a generator is applied to.
GeneratorWires == {<<0>>}

ApplyGeneratorOp ==
    /\ Idle
    /\ \E kernel \in KernelType, buf \in Buffers, gntr_op \in GeneratorOperation,
       wires \in GeneratorWires, adj \in BOOLEAN :
      LET r == applyGenerator_op(kernel, buf, gntr_op, wires, adj)
      IN  /\ pre' = buf
          /\ call' = Call("applyGenerator_op", kernel, gntr_op, wires, adj, 0, <<>>)
          /\ Finish(r.ret)
          /\ returned' = r.returned
          /\ UNCHANGED <<str_to_gates_, gates_, matrices_, str_to_gntrs_, generators_,
                         pending>>
          /\ RestStill

ApplyGeneratorStr ==
    /\ Idle
    /\ \E kernel \in KernelType, buf \in Buffers, name \in GeneratorNames,
       wires \in GeneratorWires, adj \in BOOLEAN :
      LET r == applyGenerator_str(kernel, buf, name, wires, adj)
      IN  /\ pre' = buf
          /\ call' = Call("applyGenerator_str", kernel, name, wires, adj, 0, <<>>)
          /\ Finish(r.ret)
          /\ returned' = r.returned
          /\ UNCHANGED <<str_to_gates_, gates_, matrices_, str_to_gntrs_, generators_,
                         pending>>
          /\ RestStill

\* The caller has looked at what the call left and goes on with a fresh buffer.
Return ==
    /\ ~Idle
    /\ call' = NoCall
    /\ \E buf \in Buffers : data' = buf /\ pre' = buf
    /\ outcome' = OK
    /\ invoked' = <<>>
    /\ finds' = <<>>
    /\ ub' = {}
    /\ returned' = NoValue
    /\ UNCHANGED <<str_to_gates_, gates_, matrices_, str_to_gntrs_, generators_, pending>>
    /\ RestStill

\* Gate registration and gate dispatch.
GateNext ==
    \/ RegisterGateOperation
    \/ ApplyOperationStr
    \/ ApplyOperationOp
    \/ ApplyOperations
    \/ ApplyOperationsNoParams
    \/ Return

\* Matrix registration and matrix dispatch.
MatrixNext ==
    \/ RegisterMatrixOperation
    \/ ApplyMatrixPtr
    \/ ApplyMatrixVec
    \/ Return


----------------------------------------------------------------------------
(* VectorJacobianProduct *)

InvalidGradSize == "invalid_argument: Invalid size for the gradient-output vector"

\* Undefined behaviour of the callable vectorJacobianProductFunc returns.
DanglingNumParams == "read of num_params after vectorJacobianProductFunc returned"
DanglingApplyOperations ==
    "read of apply_operations after vectorJacobianProductFunc returned"

\* std::vector::resize: keeps the first entries, value-initialises new ones
Resize(v, n) == [k \in 1 .. n |-> IF k <= Len(v) THEN v[k] ELSE 0]

\* std::vector<T>(n, 0)
Zeros(n) == [k \in 1 .. n |-> 0]

\* std::all_of(dy.cbegin(), dy.cend(), [](T e) { return e == 0; })
AllZero(dy) == \A k \in 1 .. Len(dy) : dy[k] = 0

\* getRowMajor filling res column after column.
getRowMajor_colMajor(res, jacobian, len) ==
    IF jacobian = <<>> THEN res
    ELSE LET r_len == Len(jacobian)
             c_len == Len(jacobian[1])
             t_len == IF len # 0 THEN len ELSE r_len * c_len
             res1 == IF Len(res) # t_len THEN Resize(res, t_len) ELSE res
         IN  [k \in 1 .. t_len |->
                IF k <= r_len * c_len
                THEN jacobian[((k - 1) % r_len) + 1][((k - 1) \div r_len) + 1]
                ELSE res1[k]]

\* getRowMajor(res, jac, len)
getRowMajor(res, jacobian, len) ==
    IF jacobian = <<>> THEN res
    ELSE LET r_len == Len(jacobian)
             c_len == Len(jacobian[1])
             t_len == IF len # 0 THEN len ELSE r_len * c_len
             res1 == IF Len(res) # t_len THEN Resize(res, t_len) ELSE res
         IN  [k \in 1 .. t_len |->
                IF k <= r_len * c_len
                THEN jacobian[((k - 1) \div c_len) + 1][((k - 1) % c_len) + 1]
                ELSE res1[k]]

RECURSIVE ColumnSum(_, _, _, _, _)
ColumnSum(v_in, mat, n, j, i) ==
    IF i = 0 THEN 0
    ELSE v_in[i] * mat[(i - 1) * n + j] + ColumnSum(v_in, mat, n, j, i - 1)

\* Util::vecMatrixProd(v_out, v_in, mat, m, n): v_out = v_in^T . mat, mat an
\* m x n matrix in row-major order
vecMatrixProd(v_out, v_in, mat, m, n) ==
    [j \in 1 .. n |-> ColumnSum(v_in, mat, n, j, m)]

\* What a VJP call leaves behind.
VRet(o, v, j, a, u) ==
    [outcome |-> o, vjp |-> v, jac |-> j, adjointCalls |-> a, ub |-> u]

\* computeVJP returning early, without an exception, on a dy of the wrong length.
computeVJP_silent(v, jacobian, dy_row) ==
    IF jacobian = <<>> \/ dy_row = <<>>
    THEN [outcome |-> OK, vjp |-> <<>>]
    ELSE LET r_len == Len(jacobian)
             c_len == Len(jacobian[1])
         IN  IF Len(dy_row) # r_len
             THEN [outcome |-> OK, vjp |-> v]
             ELSE [outcome |-> OK,
                   vjp |-> vecMatrixProd(v, dy_row,
                                         getRowMajor(Zeros(r_len * c_len), jacobian,
                                                     r_len * c_len),
                                         r_len, c_len)]

\* computeVJP(vjp, jac, dy_row): the vjp it leaves, or the exception
computeVJP(v, jacobian, dy_row) ==
    IF jacobian = <<>> \/ dy_row = <<>>
    THEN [outcome |-> OK, vjp |-> <<>>]
    ELSE LET r_len == Len(jacobian)
             c_len == Len(jacobian[1])
         IN  IF Len(dy_row) # r_len
             THEN [outcome |-> InvalidGradSize, vjp |-> v]
             ELSE LET t_len == r_len * c_len
                      jac_row == getRowMajor(Zeros(t_len), jacobian, t_len)
                  IN  [outcome |-> OK,
                       vjp |-> vecMatrixProd(v, dy_row, jac_row, r_len, c_len)]

\* _computeVJP(vjp, jac, dy_row, m, n), jac flattened row-wise
computeVJP_flat(v, jac_flat, dy_row, m, n) ==
    IF jac_flat = <<>> \/ dy_row = <<>>
    THEN [outcome |-> OK, vjp |-> <<>>]
    ELSE IF Len(dy_row) # m
    THEN [outcome |-> InvalidGradSize, vjp |-> v]
    ELSE [outcome |-> OK, vjp |-> vecMatrixProd(v, dy_row, jac_flat, m, n)]

\* A tape as far as the VJP engine reads it: the number of trainable
\* parameters, the number of observables, and the circuit recorded.
Tapes == [params : 0 .. MaxLen, obs : 0 .. MaxLen, circuit : {0, 1}]

\* The Jacobian of a tape: obs rows, params columns.
TapeJacobian(tape) ==
    [i \in 1 .. tape.obs |->
        [j \in 1 .. tape.params |-> 1 + ((tape.circuit + i + 2 * j) % 3)]]

\* AdjointJacobian::adjointJacobianTape(jac, tape, apply_operations): fills the
\* caller's jac with the Jacobian of the tape
adjointJacobianTape(jacobian, tape, apply_operations) == TapeJacobian(tape)

\* vectorJacobianProduct whose first shortcut tests num_params alone.
vectorJacobianProduct_noEmptyDy(v, jacobian, dy, tape, apply_operations) ==
    LET num_params == tape.params
    IN  IF num_params = 0
        THEN VRet(OK, <<>>, jacobian, 0, {})
        ELSE IF AllZero(dy)
        THEN VRet(OK, Resize(v, num_params), jacobian, 0, {})
        ELSE LET jac1 == adjointJacobianTape(jacobian, tape, apply_operations)
                 r == computeVJP(v, jac1, dy)
             IN  VRet(r.outcome, r.vjp, jac1, 1, {})

\* vectorJacobianProduct that builds the Jacobian before it looks at dy.
vectorJacobianProduct_lateAllZero(v, jacobian, dy, tape, apply_operations) ==
    LET num_params == tape.params
    IN  IF num_params = 0 \/ dy = <<>>
        THEN VRet(OK, <<>>, jacobian, 0, {})
        ELSE LET jac1 == adjointJacobianTape(jacobian, tape, apply_operations)
             IN  IF AllZero(dy)
                 THEN VRet(OK, Resize(v, num_params), jac1, 1, {})
                 ELSE LET r == computeVJP(v, jac1, dy)
                      IN  VRet(r.outcome, r.vjp, jac1, 1, {})

\* vectorJacobianProduct(vjp, jac, dy, tape, apply_operations)
vectorJacobianProduct(v, jacobian, dy, tape, apply_operations) ==
    LET num_params == tape.params
    IN  IF num_params = 0 \/ dy = <<>>
        THEN VRet(OK, <<>>, jacobian, 0, {})
        ELSE IF AllZero(dy)
        THEN VRet(OK, Resize(v, num_params), jacobian, 0, {})
        ELSE LET jac1 == adjointJacobianTape(jacobian, tape, apply_operations)
                 r == computeVJP(v, jac1, dy)
             IN  VRet(r.outcome, r.vjp, jac1, 1, {})

\* What a read of the dead local num_params can yield.
GarbageSizes == 0 .. MaxLen + 1

\* vectorJacobianProductFunc(dy, tape, apply_operations) followed by a call of
\* the callable it returns: the vectors that call can return, or the process
\* is killed.  The second lambda captures the local num_params by reference,
\* the third captures num_params and the parameter apply_operations by
\* reference; both are dead when the callable runs.
vectorJacobianProductFunc(dy, tape, apply_operations) ==
    LET num_params == tape.params
    IN  IF num_params = 0 \/ dy = <<>>
        THEN {VRet(OK, <<>>, <<>>, 0, {})}
        ELSE IF AllZero(dy)
        THEN {VRet(OK, Zeros(g), <<>>, 0, {DanglingNumParams}) : g \in GarbageSizes}
             \cup {VRet(Crash, <<>>, <<>>, 0, {DanglingNumParams})}
        ELSE LET jac0 == [i \in 1 .. tape.obs |-> Zeros(num_params)]
                 jac1 == adjointJacobianTape(jac0, tape, apply_operations)
                 r == computeVJP(Zeros(num_params), jac1, dy)
             IN  {VRet(r.outcome, r.vjp, jac1, 1,
                       {DanglingNumParams, DanglingApplyOperations}),
                  VRet(Crash, <<>>, <<>>, 0,
                       {DanglingNumParams, DanglingApplyOperations})}

----------------------------------------------------------------------------
(* The VJP engine's actions *)

\* What callers hand in: upstream gradients, and vjp vectors and jac
\* matrices that still hold what an earlier use left in them.
Gradients == SeqsUpTo({0, 1}, MaxLen)
StaleVectors == SeqsUpTo({7}, MaxLen)
StaleMatrix(m, n) == [i \in 1 .. m |-> [j \in 1 .. n |-> 7]]

VCall(api, dy, tape, v0, jac0) ==
    [api |-> api, dy |-> dy, tape |-> tape, vjp0 |-> v0, jac0 |-> jac0]

NoVCall == VCall("none", <<>>, [params |-> 0, obs |-> 0, circuit |-> 0], <<>>, <<>>)

VIdleNow == vcall.api = "none"

VIdle ==
    /\ vjp = <<>>
    /\ jac = <<>>
    /\ vcall = NoVCall
    /\ voutcome = OK
    /\ adjointCalls = 0
    /\ vub = {}

VFinish(o, v, j, a, u) ==
    /\ voutcome' = o
    /\ vjp' = v
    /\ jac' = j
    /\ adjointCalls' = a
    /\ vub' = u

DStill == UNCHANGED <<dvars, svars, extra>>

ComputeVJP ==
    /\ VIdleNow
    /\ \E v0 \in StaleVectors, tape \in Tapes, dy \in Gradients :
        LET r == computeVJP(v0, TapeJacobian(tape), dy)
        IN  /\ vcall' = VCall("computeVJP", dy, tape, v0, TapeJacobian(tape))
            /\ VFinish(r.outcome, r.vjp, TapeJacobian(tape), 0, {})
            /\ DStill

ComputeVJPFlat ==
    /\ VIdleNow
    /\ \E v0 \in StaleVectors, tape \in Tapes, dy \in Gradients :
        LET jac_flat == getRowMajor(<<>>, TapeJacobian(tape), 0)
            r == computeVJP_flat(v0, jac_flat, dy, tape.obs, tape.params)
        IN  /\ vcall' = VCall("_computeVJP", dy, tape, v0, jac_flat)
            /\ VFinish(r.outcome, r.vjp, jac_flat, 0, {})
            /\ DStill

VectorJacobianProduct ==
    /\ VIdleNow
    /\ \E v0 \in StaleVectors, tape \in Tapes, dy \in Gradients,
          apply_operations \in BOOLEAN :
        LET jac0 == StaleMatrix(tape.obs, tape.params)
            r == vectorJacobianProduct(v0, jac0, dy, tape, apply_operations)
        IN  /\ vcall' = VCall("vectorJacobianProduct", dy, tape, v0, jac0)
            /\ VFinish(r.outcome, r.vjp, r.jac, r.adjointCalls, r.ub)
            /\ DStill

VectorJacobianProductFunc ==
    /\ VIdleNow
    /\ \E tape \in Tapes, dy \in Gradients, apply_operations \in BOOLEAN :
        \E r \in vectorJacobianProductFunc(dy, tape, apply_operations) :
            /\ vcall' = VCall("vectorJacobianProductFunc", dy, tape, <<>>, <<>>)
            /\ VFinish(r.outcome, r.vjp, r.jac, r.adjointCalls, r.ub)
            /\ DStill

\* The caller has looked at what the call left.
VReturn ==
    /\ ~VIdleNow
    /\ vcall' = NoVCall
    /\ VFinish(OK, <<>>, <<>>, 0, {})
    /\ DStill

VJPNext ==
    \/ ComputeVJP
    \/ ComputeVJPFlat
    \/ VectorJacobianProduct
    \/ VectorJacobianProductFunc
    \/ VReturn

----------------------------------------------------------------------------
(* The managed state vector *)

\* Amplitudes: 0 stands for (0,0), 1 for (1,0), 2 for any other value.
Amplitudes == {0, 1, 2}

\* How a state vector call can end, besides OK and Crash.
Aborted == "LightningException"

\* The undefined behaviour a state vector call can run into.
OutOfBoundsWrite == "write past the end of data_"
OutOfBoundsRead == "read past the end of values"

\* Util::isPerfectPowerOf2
isPerfectPowerOf2(value) == \E k \in 0 .. value : exp2(k) = value

\* Util::log2PerfectPower
log2PerfectPower(value) ==
    IF isPerfectPowerOf2(value)
    THEN CHOOSE k \in 0 .. value : exp2(k) = value
    ELSE 0

\* PL_ABORT_IF_NOT(expression, message) and PL_ASSERT(expression) let the
\* caller go on when the expression holds and throw otherwise.
PL_ABORT_IF_NOT(expression) == expression
PL_ASSERT(expression) == expression

\* StateVectorLQubit::getLength
getLength(nq) == exp2(nq)

\* What a call on an object leaves behind.
SRet(o, d, out, u) == [outcome |-> o, data |-> d, outside |-> out, ub |-> u]

\* setBasisState that does not clear the buffer first.
setBasisState_noFill(d, index) ==
    IF index < Len(d)
    THEN {SRet(OK, [d EXCEPT ![index + 1] = 1], {}, {})}
    ELSE {SRet(OK, d, {<<index, 1>>}, {OutOfBoundsWrite}),
          SRet(Crash, d, {}, {OutOfBoundsWrite})}

\* setBasisState(index): std::fill, then data_[index] = {1, 0}, unchecked
setBasisState(d, index) ==
    LET filled == [k \in 1 .. Len(d) |-> 0]
    IN  IF index < Len(d)
        THEN {SRet(OK, [filled EXCEPT ![index + 1] = 1], {}, {})}
        ELSE {SRet(OK, filled, {<<index, 1>>}, {OutOfBoundsWrite}),
              SRet(Crash, filled, {}, {OutOfBoundsWrite})}

\* The loop of setStateVector from its n-th round on: values[n] is read,
\* data_[indices[n]] is written, neither is checked.
RECURSIVE setStateVectorLoop(_, _, _, _, _, _)
setStateVectorLoop(d, out, u, indices, values, n) ==
    IF n > Len(indices) THEN {SRet(OK, d, out, u)}
    ELSE LET inValues == n <= Len(values)
             inData == indices[n] < Len(d)
             reads == IF inValues THEN {values[n]} ELSE Amplitudes
             u1 == (u \cup (IF inValues THEN {} ELSE {OutOfBoundsRead}))
                     \cup (IF inData THEN {} ELSE {OutOfBoundsWrite})
         IN  (IF inValues /\ inData THEN {} ELSE {SRet(Crash, d, out, u1)})
             \cup UNION {
                 IF inData
                 THEN setStateVectorLoop([d EXCEPT ![indices[n] + 1] = v], out, u1,
                                         indices, values, n + 1)
                 ELSE setStateVectorLoop(d, out \cup {<<indices[n], v>>}, u1,
                                         indices, values, n + 1)
                 : v \in reads}

Reverse(q) == [k \in 1 .. Len(q) |-> q[Len(q) + 1 - k]]

\* setStateVector walking the two lists from their last entry to their first.
setStateVector_backwards(d, indices, values) ==
    IF Len(indices) = Len(values)
    THEN setStateVectorLoop(d, {}, {}, Reverse(indices), Reverse(values), 1)
    ELSE setStateVectorLoop(d, {}, {}, indices, values, 1)

\* setStateVector that grows data_ to hold an index past its end.
setStateVector_grow(d, indices, values) ==
    LET top == IF indices = <<>> THEN 0
               ELSE CHOOSE i \in {indices[k] : k \in 1 .. Len(indices)} :
                       \A k \in 1 .. Len(indices) : indices[k] <= i
        grown == [k \in 1 .. (IF top + 1 > Len(d) THEN top + 1 ELSE Len(d)) |->
                    IF k <= Len(d) THEN d[k] ELSE 0]
    IN  setStateVectorLoop(grown, {}, {}, indices, values, 1)

\* setStateVector(indices, values)
setStateVector(d, indices, values) ==
    setStateVectorLoop(d, {}, {}, indices, values, 1)

\* resetStateVector()
resetStateVector(d, nq) ==
    IF getLength(nq) > 0 THEN setBasisState(d, 0) ELSE {SRet(OK, d, {}, {})}

\* updateData that takes over a buffer of another length.
updateData_resize(d, new_data, new_size) ==
    {SRet(OK, [k \in 1 .. new_size |-> new_data[k]], {}, {})}

\* updateData(new_data, new_size), new_data holding new_size amplitudes
updateData(d, new_data, new_size) ==
    IF ~PL_ASSERT(Len(d) = new_size)
    THEN {SRet(Aborted, d, {}, {})}
    ELSE {SRet(OK, [k \in 1 .. Len(d) |-> IF k <= new_size THEN new_data[k] ELSE d[k]],
               {}, {})}

\* What a constructor leaves: the object's fields, or the exception.
SNew(o, d, nq) == [outcome |-> o, data |-> d, num_qubits |-> nq]

\* The constructor from a qubit count that leaves the buffer as allocated.
Construct_num_qubits_noBasis(num_qubits) ==
    SNew(OK, [k \in 1 .. exp2(num_qubits) |-> 0], num_qubits)

\* StateVectorLQubitManaged(num_qubits, threading, memory_model)
Construct_num_qubits(num_qubits) ==
    LET allocated == [k \in 1 .. exp2(num_qubits) |-> 0]
        r == CHOOSE x \in setBasisState(allocated, 0) : x.outcome = OK
    IN  SNew(r.outcome, r.data, num_qubits)

\* StateVectorLQubitManaged(const StateVectorLQubit &other)
Construct_other(other_data, other_num_qubits) ==
    SNew(OK, [k \in 1 .. getLength(other_num_qubits) |-> other_data[k]],
         other_num_qubits)

\* The constructor from a data pointer that accepts every size.
Construct_data_noCheck(other_data, other_size) ==
    SNew(OK, [k \in 1 .. other_size |-> other_data[k]],
         log2PerfectPower(other_size))

\* StateVectorLQubitManaged(other_data, other_size, threading, memory_model);
\* the constructor from a std::vector delegates to it
Construct_data(other_data, other_size) ==
    LET nq == log2PerfectPower(other_size)
        copied == [k \in 1 .. other_size |-> other_data[k]]
    IN  IF ~PL_ABORT_IF_NOT(isPerfectPowerOf2(other_size))
        THEN SNew(Aborted, <<>>, 0)
        ELSE SNew(OK, copied, nq)

----------------------------------------------------------------------------
(* The state vector's actions *)

\* What callers hand in.
QubitCounts == 0 .. MaxQubits
RawBuffers == SeqsUpTo(Amplitudes, exp2(MaxQubits) + 1)
Indices == 0 .. exp2(MaxQubits)
IndexLists == SeqsUpTo(Indices, MaxWrites)
ValueLists == SeqsUpTo({1, 2}, MaxWrites)

SCall(api, n, index, indices, values, buffer, d0, nq0) ==
    [api |-> api, num_qubits |-> n, index |-> index, indices |-> indices,
     values |-> values, buffer |-> buffer, data0 |-> d0, num_qubits0 |-> nq0]

NoSCall == SCall("none", 0, 0, <<>>, <<>>, <<>>, <<>>, 0)

SIdleNow == scall.api = "none"

SInit ==
    /\ data_ = <<>>
    /\ num_qubits_ = 0
    /\ alive = FALSE
    /\ scall = NoSCall
    /\ soutcome = OK
    /\ outside = {}
    /\ sub = {}

OthersStill == UNCHANGED <<dvars, vvars, extra>>

\* A constructor ran: the object exists unless the constructor threw.
SConstructed(r) ==
    /\ soutcome' = r.outcome
    /\ alive' = (r.outcome = OK)
    /\ data_' = r.data
    /\ num_qubits_' = r.num_qubits
    /\ outside' = {}
    /\ sub' = {}

\* A method ran on the object: a crash ends the process and the object with it.
SFinish(r) ==
    /\ soutcome' = r.outcome
    /\ alive' = (r.outcome # Crash)
    /\ data_' = IF r.outcome = Crash THEN <<>> ELSE r.data
    /\ num_qubits_' = IF r.outcome = Crash THEN 0 ELSE num_qubits_
    /\ outside' = r.outside
    /\ sub' = r.ub

Create ==
    /\ SIdleNow
    /\ ~alive
    /\ \E n \in QubitCounts :
        /\ scall' = SCall("create", n, 0, <<>>, <<>>, <<>>, data_, num_qubits_)
        /\ SConstructed(Construct_num_qubits(n))
    /\ OthersStill

CopyConstruct ==
    /\ SIdleNow
    /\ alive
    /\ scall' = SCall("copy", 0, 0, <<>>, <<>>, <<>>, data_, num_qubits_)
    /\ SConstructed(Construct_other(data_, num_qubits_))
    /\ OthersStill

ConstructFromData ==
    /\ SIdleNow
    /\ ~alive
    /\ \E other \in RawBuffers :
        /\ scall' = SCall("fromData", 0, 0, <<>>, <<>>, other, data_, num_qubits_)
        /\ SConstructed(Construct_data(other, Len(other)))
    /\ OthersStill

SetBasisState ==
    /\ SIdleNow
    /\ alive
    /\ \E index \in Indices : \E r \in setBasisState(data_, index) :
        /\ scall' = SCall("setBasisState", 0, index, <<>>, <<>>, <<>>, data_,
                          num_qubits_)
        /\ SFinish(r)
    /\ OthersStill

SetStateVector ==
    /\ SIdleNow
    /\ alive
    /\ \E indices \in IndexLists, values \in ValueLists :
        \E r \in setStateVector(data_, indices, values) :
            /\ scall' = SCall("setStateVector", 0, 0, indices, values, <<>>, data_,
                              num_qubits_)
            /\ SFinish(r)
    /\ OthersStill

ResetStateVector ==
    /\ SIdleNow
    /\ alive
    /\ \E r \in resetStateVector(data_, num_qubits_) :
        /\ scall' = SCall("resetStateVector", 0, 0, <<>>, <<>>, <<>>, data_,
                          num_qubits_)
        /\ SFinish(r)
    /\ OthersStill

UpdateData ==
    /\ SIdleNow
    /\ alive
    /\ \E new_data \in RawBuffers : \E r \in updateData(data_, new_data, Len(new_data)) :
        /\ scall' = SCall("updateData", 0, 0, <<>>, <<>>, new_data, data_,
                          num_qubits_)
        /\ SFinish(r)
    /\ OthersStill

\* The owning scope ends.
Destroy ==
    /\ SIdleNow
    /\ alive
    /\ alive' = FALSE
    /\ data_' = <<>>
    /\ num_qubits_' = 0
    /\ UNCHANGED <<scall, soutcome, outside, sub>>
    /\ OthersStill

\* The caller has looked at what the call left.
SReturn ==
    /\ ~SIdleNow
    /\ scall' = NoSCall
    /\ soutcome' = OK
    /\ outside' = {}
    /\ sub' = {}
    /\ UNCHANGED <<data_, num_qubits_, alive>>
    /\ OthersStill

StateVectorNext ==
    \/ Create
    \/ CopyConstruct
    \/ ConstructFromData
    \/ SetBasisState
    \/ SetStateVector
    \/ ResetStateVector
    \/ UpdateData
    \/ Destroy
    \/ SReturn

----------------------------------------------------------------------------
(* Specifications *)

\* The pieces names are put together from.
NameParts ==
    {Str_Generator, <<"G", "e", "n">>, <<"e", "r", "a", "t", "o", "r">>, Str_RX, <<"r">>}

\* The names made of n pieces.
RECURSIVE NamesOf(_)
NamesOf(n) ==
    IF n = 0 THEN {<<>>}
    ELSE {a \o b : a \in NamesOf(n - 1), b \in NameParts}

Names == UNION {NamesOf(n) : n \in 0 .. MaxParts}

PInit ==
    /\ gntr_name = <<>>
    /\ stripped = <<>>

\* removeGeneratorPrefix(name), for any name
RemoveGeneratorPrefix ==
    /\ \E name \in Names :
        /\ gntr_name' = name
        /\ stripped' = removeGeneratorPrefix(name)
    /\ UNCHANGED <<dvars, vvars, svars, kvars, tvars>>

\* Registration in the three tables and generator dispatch.
RegistryNext ==
    \/ RegisterGateOperation
    \/ RegisterGeneratorOperation
    \/ RegisterMatrixOperation
    \/ ApplyGeneratorOp
    \/ ApplyGeneratorStr
    \/ Return

\* A gate of a kernel test.
Gate(name, wires) == [gate |-> name, wires |-> wires]

\* Hadamard on wire 0, CNOT on (0, 1), CNOT on (1, 2): testApplyCNOT
GHZCircuit ==
    <<Gate("Hadamard", <<0>>), Gate("CNOT", <<0, 1>>), Gate("CNOT", <<1, 2>>)>>

Wires == 0 .. NumQubits - 1

WirePairs == {<<a, b>> : a \in Wires, b \in Wires} \ {<<w, w>> : w \in Wires}

\* The buffer as it is now.
st == states[Len(states)]

\* A test has created its buffer and applied nothing yet.
KInit ==
    /\ applied = <<>>
    /\ states = <<ZeroState>>

\* The tests start from |0...0> or from a prepared buffer.
KernelInit ==
    /\ applied = <<>>
    /\ states \in {<<ZeroState>>, <<CountingState>>}

\* A test applies at most as many gates as testApplyCNOT does.
MoreGates == Len(applied) < Len(GHZCircuit)

Applies(g, buf) ==
    /\ MoreGates
    /\ applied' = Append(applied, g)
    /\ states' = Append(states, buf)
    /\ UNCHANGED <<dvars, vvars, svars, pvars, tvars>>

ApplyHadamard ==
    \E w \in Wires : Applies(Gate("Hadamard", <<w>>), applyHadamard(st, <<w>>))

ApplyPauliX ==
    \E w \in Wires : Applies(Gate("PauliX", <<w>>), applyPauliX(st, <<w>>))

ApplyCNOT ==
    \E wires \in WirePairs : Applies(Gate("CNOT", wires), applyCNOT(st, wires))

ApplySWAP ==
    \E wires \in WirePairs : Applies(Gate("SWAP", wires), applySWAP(st, wires))

\* The gate kernels applied directly to a buffer, as the kernel tests do.
KernelNext ==
    \/ ApplyHadamard
    \/ ApplyPauliX
    \/ ApplyCNOT
    \/ ApplySWAP

\* The threads that call the dispatcher, each on a buffer of its own.
Threads == {"t1", "t2"}

\* Where a thread is: between calls, holding the iterator find returned,
\* about to throw, or holding the answer of a query.
Pending(pc, f, wires, inverse, value) ==
    [pc |-> pc, f |-> f, wires |-> wires, inverse |-> inverse, value |-> value]

Between == Pending("idle", <<>>, <<>>, FALSE, <<>>)

\* The tables and name maps.
Tables ==
    [gates |-> gates_, generators |-> generators_, matrices |-> matrices_,
     str_to_gates |-> str_to_gates_, str_to_gntrs |-> str_to_gntrs_]

\* A lookup that inserts an empty entry under a key it does not find
\* (operator[] in the place of find).
FindGate_insert(key) ==
    [found |-> key \in DOMAIN gates_,
     f |-> IF key \in DOMAIN gates_ THEN gates_[key] ELSE <<>>,
     gates |-> IF key \in DOMAIN gates_ THEN gates_
               ELSE gates_ @@ (key :> [impl |-> "None", gate |-> "None"])]

\* gates_.find(std::make_pair(gate_op, kernel)): the iterator, and gates_ after it
FindGate(key) ==
    [found |-> key \in DOMAIN gates_,
     f |-> IF key \in DOMAIN gates_ THEN gates_[key] ELSE <<>>,
     gates |-> gates_]

TInit ==
    /\ tbuf \in [Threads -> Buffers]
    /\ talone = tbuf
    /\ tpend = [t \in Threads |-> Between]
    /\ frozen = <<>>

ThreadsStarted == frozen # <<>>

\* Registration is over; the threads are started.
StartThreads ==
    /\ Idle
    /\ ~ThreadsStarted
    /\ frozen' = <<Tables>>
    /\ UNCHANGED <<dvars, vvars, svars, pvars, kvars, tbuf, talone, tpend>>

\* What a step of a thread leaves alone.
ThreadFrame ==
    UNCHANGED <<str_to_gates_, matrices_, data, pre, call, outcome, invoked, finds,
                ub, gvars, vvars, svars, pvars, kvars, frozen>>

\* A thread enters applyOperation(kernel, data, num_qubits, gate_op, wires,
\* inverse, params) and gets its iterator.
ThreadFind ==
    /\ ThreadsStarted
    /\ \E t \in Threads, kernel \in kernels_to_pyexport, gate_op \in GateOperation,
         inverse \in BOOLEAN :
        LET r == FindGate(GateKey(gate_op, kernel))
            wires == <<0>>
        IN  /\ tpend[t].pc = "idle"
            /\ gates_' = r.gates
            /\ tpend' = [tpend EXCEPT ![t] =
                            IF r.found THEN Pending("found", r.f, wires, inverse, <<>>)
                            ELSE Pending("throw", <<>>, wires, inverse, <<>>)]
            /\ talone' = [talone EXCEPT ![t] =
                            applyOperation_op(kernel, talone[t], gate_op, wires,
                                              inverse, <<>>).data]
            /\ UNCHANGED tbuf
            /\ ThreadFrame

\* (iter->second)(data, num_qubits, wires, inverse, params) on the thread's buffer
ThreadInvoke ==
    /\ \E t \in Threads :
        /\ tpend[t].pc = "found"
        /\ tbuf' = [tbuf EXCEPT ![t] =
                        CallGateFunc(tpend[t].f, tbuf[t], tpend[t].wires,
                                     tpend[t].inverse, <<>>)]
        /\ tpend' = [tpend EXCEPT ![t] = Between]
    /\ UNCHANGED <<gates_, talone>>
    /\ ThreadFrame

\* isRegistered(gate_op, kernel), called by a thread
ThreadIsRegistered ==
    /\ ThreadsStarted
    /\ \E t \in Threads, kernel \in kernels_to_pyexport, gate_op \in GateOperation :
        LET r == FindGate(GateKey(gate_op, kernel))
        IN  /\ tpend[t].pc = "idle"
            /\ gates_' = r.gates
            /\ tpend' = [tpend EXCEPT ![t] =
                            Pending("answer", <<>>, <<>>, FALSE, <<r.found>>)]
    /\ UNCHANGED <<tbuf, talone>>
    /\ ThreadFrame

\* strToGateOp(gate_name), called by a thread: str_to_gates_.at(gate_name)
ThreadStrToGateOp ==
    /\ ThreadsStarted
    /\ \E t \in Threads, gate_name \in OpNames :
        /\ tpend[t].pc = "idle"
        /\ tpend' = [tpend EXCEPT ![t] =
                        IF gate_name \in DOMAIN str_to_gates_
                        THEN Pending("answer", <<>>, <<>>, FALSE,
                                     <<str_to_gates_[gate_name]>>)
                        ELSE Pending("throw", <<>>, <<>>, FALSE, <<>>)]
    /\ UNCHANGED <<gates_, tbuf, talone>>
    /\ ThreadFrame

\* A thread leaves its call: with the answer, or by the exception.
ThreadReturn ==
    /\ \E t \in Threads :
        /\ tpend[t].pc \in {"answer", "throw"}
        /\ tpend' = [tpend EXCEPT ![t] = Between]
    /\ UNCHANGED <<gates_, tbuf, talone>>
    /\ ThreadFrame

\* Registration before the threads exist.
InitRegisterGateOperation == ~ThreadsStarted /\ RegisterGateOperation

\* Registration, then dispatch and queries from several threads.
ThreadsNext ==
    \/ InitRegisterGateOperation
    \/ Return
    \/ StartThreads
    \/ ThreadFind
    \/ ThreadInvoke
    \/ ThreadIsRegistered
    \/ ThreadStrToGateOp
    \/ ThreadReturn

\* One registration of the initialisation before main.
Registration(api, op, kernel, func) ==
    [api |-> api, op |-> op, kernel |-> kernel, func |-> func]

\* registerKernel<PrecisionT, ParamT, GateImplementation>(): every gate, every
\* generator and every matrix class of the kernel, each once.
registerKernel(kernel) ==
    <<Registration("registerGateOperation", gate_names[1][1], kernel,
                   [impl |-> kernel, gate |-> gate_names[1][2]]),
      Registration("registerGateOperation", gate_names[2][1], kernel,
                   [impl |-> kernel, gate |-> gate_names[2][2]]),
      Registration("registerGeneratorOperation", generator_names[1][1], kernel,
                   [impl |-> kernel, gntr |-> Str_RX]),
      Registration("registerGeneratorOperation", generator_names[2][1], kernel,
                   [impl |-> kernel, gntr |-> Str_RZ]),
      Registration("registerMatrixOperation", "SingleQubitOp", kernel,
                   [impl |-> kernel, mat |-> "SingleQubitOp"]),
      Registration("registerMatrixOperation", "TwoQubitOp", kernel,
                   [impl |-> kernel, mat |-> "TwoQubitOp"]),
      Registration("registerMatrixOperation", "MultiQubitOp", kernel,
                   [impl |-> kernel, mat |-> "MultiQubitOp"])>>

\* registerAllAvailableKernels: kernel LM, then kernel PI
registerAllAvailableKernels == registerKernel("LM") \o registerKernel("PI")

\* The initialisation of RegisterBeforeMain::dummy has not finished and main
\* runs all the same.
StaticInitDone_deferred == TRUE

\* RegisterBeforeMain::dummy is initialised, which is before main begins.
StaticInitDone == pending = <<>>

\* The next registration of registerAllAvailableKernels.
RegisterBeforeMain ==
    /\ Idle
    /\ pending # <<>>
    /\ LET r == Head(pending)
           key == <<r.op, r.kernel>>
       IN  /\ gates_' = IF r.api = "registerGateOperation"
                        THEN Emplace(gates_, key, r.func) ELSE gates_
           /\ generators_' = IF r.api = "registerGeneratorOperation"
                             THEN Emplace(generators_, key, r.func) ELSE generators_
           /\ matrices_' = IF r.api = "registerMatrixOperation"
                           THEN Emplace(matrices_, key, r.func) ELSE matrices_
           /\ call' = RegCall(r.api, r.kernel, r.op, r.func,
                              key \in (IF r.api = "registerGateOperation"
                                       THEN DOMAIN gates_
                                       ELSE IF r.api = "registerGeneratorOperation"
                                       THEN DOMAIN generators_
                                       ELSE DOMAIN matrices_))
    /\ pending' = Tail(pending)
    /\ UNCHANGED <<str_to_gates_, data, pre, outcome, invoked, finds, ub,
                   str_to_gntrs_, returned>>
    /\ RestStill

\* The dispatch calls of main.
MainApplyOperationStr == StaticInitDone /\ ApplyOperationStr

MainApplyOperationOp == StaticInitDone /\ ApplyOperationOp

MainApplyOperations == StaticInitDone /\ ApplyOperations

MainApplyOperationsNoParams == StaticInitDone /\ ApplyOperationsNoParams

MainApplyMatrixPtr == StaticInitDone /\ ApplyMatrixPtr

MainApplyMatrixVec == StaticInitDone /\ ApplyMatrixVec

MainApplyGeneratorOp == StaticInitDone /\ ApplyGeneratorOp

MainApplyGeneratorStr == StaticInitDone /\ ApplyGeneratorStr

\* The process: initialisation before main, then the dispatch calls of main.
ProcessNext ==
    \/ RegisterBeforeMain
    \/ MainApplyOperationStr
    \/ MainApplyOperationOp
    \/ MainApplyOperations
    \/ MainApplyOperationsNoParams
    \/ MainApplyMatrixPtr
    \/ MainApplyMatrixVec
    \/ MainApplyGeneratorOp
    \/ MainApplyGeneratorStr
    \/ Return

\* The process as it is loaded: the dispatcher constructed, every
\* registration of registerAllAvailableKernels still to be made.
ProcessInit ==
    /\ DConstructed
    /\ pending = registerAllAvailableKernels
    /\ VIdle /\ SInit /\ PInit /\ KInit /\ TInit

Init == DInit /\ VIdle /\ SInit /\ PInit /\ KInit /\ TInit

Next == GateNext

Spec == Init /\ [][Next]_vars

SpecMatrix == Init /\ [][MatrixNext]_vars

SpecVJP == Init /\ [][VJPNext]_vars

SpecStateVector == Init /\ [][StateVectorNext]_vars

SpecRegistry == Init /\ [][RegistryNext]_vars

SpecPrefix == Init /\ [][RemoveGeneratorPrefix]_vars

SpecProcess == ProcessInit /\ [][ProcessNext]_vars

\* A kernel test begins: nothing else has happened.
KernelTestInit == DInit /\ VIdle /\ SInit /\ PInit /\ TInit /\ KernelInit

SpecKernels == KernelTestInit /\ [][KernelNext]_vars

SpecThreads == Init /\ [][ThreadsNext]_vars

----------------------------------------------------------------------------
(* Properties of the gate dispatch *)

\* The gate names of gate_names, and the operation each one names.
KnownNames == {gate_names[i][2] : i \in 1 .. Len(gate_names)}
OpOfName(name) ==
    CHOOSE op \in GateOperation : \E i \in 1 .. Len(gate_names) :
                                     gate_names[i] = <<op, name>>
NameOfOp(op) ==
    CHOOSE name \in KnownNames : \E i \in 1 .. Len(gate_names) :
                                    gate_names[i] = <<op, name>>

\* The last call was an applyOperation for an (operation, variant) pair.
SingleGateCall ==
    \/ call.api = "applyOperation_op"
    \/ call.api = "applyOperation_str" /\ call.target \in KnownNames

RequestedOp ==
    IF call.api = "applyOperation_op" THEN call.target ELSE OpOfName(call.target)

RequestedKey == <<RequestedOp, call.kernel>>

\* C1: applyOperation, by name or by identifier, for an (operation, variant)
\* pair with no entry in the gate table reports the failure, invokes no
\* kernel and leaves every amplitude of the buffer as it was, whatever else
\* is registered.
C1_UnregisteredGateFails ==
    (SingleGateCall /\ RequestedKey \notin DOMAIN gates_)
        => /\ outcome = NotRegistered
           /\ invoked = <<>>
           /\ data = pre

\* C1 happens: an unregistered pair is requested while the same operation is
\* registered under another variant.
C1_Witness ==
    /\ SingleGateCall
    /\ RequestedKey \notin DOMAIN gates_
    /\ \E k \in KernelType : <<RequestedOp, k>> \in DOMAIN gates_
    /\ outcome = NotRegistered

\* C2: a successful applyOperation for (op, K) invokes exactly once the
\* callable registered under the key (op, K), and no other callable.
C2_InvokesRegisteredCallable ==
    (SingleGateCall /\ outcome = OK)
        => /\ RequestedKey \in DOMAIN gates_
           /\ Len(invoked) = 1
           /\ invoked[1].f = gates_[RequestedKey]

\* C2 happens: the call succeeds while the same operation has a different
\* callable under another variant and another operation has one under the
\* same variant.
C2_Witness ==
    /\ SingleGateCall
    /\ outcome = OK
    /\ \E k \in KernelType :
          /\ <<RequestedOp, k>> \in DOMAIN gates_
          /\ gates_[<<RequestedOp, k>>] # gates_[RequestedKey]
    /\ \E op \in GateOperation :
          /\ op # RequestedOp
          /\ <<op, call.kernel>> \in DOMAIN gates_
    /\ data # pre

\* What the last call left, without the arguments the kernel was given.
Left == [outcome |-> outcome, data |-> data, finds |-> finds, ub |-> ub,
         invoked |-> invoked]

LeftBy(r) == [outcome |-> r.outcome, data |-> r.data, finds |-> r.finds,
              ub |-> r.ub, invoked |-> r.invoked]

\* C3: for every gate name known to the dispatcher, applyOperation by name
\* and applyOperation by the gate's identifier look up the same registry
\* entry and leave the buffer in the same state, or both fail.
C3_NameAndIdAgree ==
    /\ (call.api = "applyOperation_str" /\ call.target \in KnownNames)
          => Left = LeftBy(applyOperation_op(call.kernel, pre, OpOfName(call.target),
                                             call.wires, call.inverse, <<>>))
    /\ call.api = "applyOperation_op"
          => Left = LeftBy(applyOperation_str(call.kernel, pre, NameOfOp(call.target),
                                              call.wires, call.inverse, <<>>))

\* C3 happens: a call by name of the second gate of the table ran its kernel.
C3_Witness ==
    /\ call.api = "applyOperation_str"
    /\ call.target = gate_names[Len(gate_names)][2]
    /\ outcome = OK
    /\ data # pre

\* The last call was an applyOperations.
BatchCall == call.api \in {"applyOperations", "applyOperations_noparams"}

\* The parallel lists of the last applyOperations do not all have one length.
ListsDiffer == \E a, b \in 1 .. Len(call.lens) : call.lens[a] # call.lens[b]

\* C4: applyOperations fails, before it applies any operation, whenever the
\* parallel lists (ops, wires, inverse flags and, where given, params) do not
\* all have the same length.
C4_UnequalListsFail ==
    (BatchCall /\ ListsDiffer)
        => /\ outcome = ListLengths
           /\ invoked = <<>>
           /\ data = pre

----------------------------------------------------------------------------
(* Properties of the matrix dispatch *)

MatrixCall == call.api \in {"applyMatrix_ptr", "applyMatrix_vec"}

\* C5: applyMatrix given a dense matrix whose number of entries is not 4^k,
\* k the number of wires, fails with the shape error before any registry
\* lookup or kernel invocation and leaves the buffer as it was.
C5_WrongMatrixSizeFails ==
    (call.api = "applyMatrix_vec" /\ call.msize # 4 ^ Len(call.wires))
        => /\ outcome = MatrixSize
           /\ finds = <<>>
           /\ invoked = <<>>
           /\ data = pre

\* C5 happens: a matrix of the wrong size is refused although a kernel is
\* registered for the variant and the single-wire class.
C5_Witness ==
    /\ call.api = "applyMatrix_vec"
    /\ Len(call.wires) = 1
    /\ call.msize > 4
    /\ <<"SingleQubitOp", call.kernel>> \in DOMAIN matrices_
    /\ outcome = MatrixSize

\* C6: applyMatrix for a variant whose selected matrix class has no
\* registered kernel reports the lookup failure as a well-defined error,
\* reads no registry entry that does not exist and does not modify the buffer.
C6_UnregisteredMatrixFails ==
    (MatrixCall /\ finds # <<>> /\ finds[1] \notin DOMAIN matrices_)
        => /\ outcome = NotRegistered
           /\ ub = {}
           /\ invoked = <<>>
           /\ data = pre

\* C7: applyMatrix selects the matrix class from the number of wires alone:
\* one wire the single-wire kernel, two wires the two-wire kernel, three or
\* more wires the multi-wire kernel, always of the requested variant.
C7_ClassByWireCount ==
    (MatrixCall /\ finds # <<>>)
        => LET k == Len(call.wires)
               class == IF k = 1 THEN "SingleQubitOp"
                        ELSE IF k = 2 THEN "TwoQubitOp" ELSE "MultiQubitOp"
           IN  k >= 1 =>
                 /\ finds = << <<class, call.kernel>> >>
                 /\ outcome = OK =>
                       /\ Len(invoked) = 1
                       /\ invoked[1].f = matrices_[<<class, call.kernel>>]

\* C7 happens: two wires reach the registered two-wire kernel while a
\* multi-wire kernel of the same variant is registered too.
C7_Witness ==
    /\ MatrixCall
    /\ Len(call.wires) = 2
    /\ outcome = OK
    /\ data # pre
    /\ <<"MultiQubitOp", call.kernel>> \in DOMAIN matrices_

----------------------------------------------------------------------------
(* Properties of the vector-Jacobian product *)

\* C8: with at least one trainable parameter and a non-empty dy whose entries
\* are all zero, vectorJacobianProduct leaves vjp with one entry per trainable
\* parameter, every entry zero, whatever the caller's vjp held before.
C8_AllZeroGivesZeroVector ==
    (/\ vcall.api = "vectorJacobianProduct"
     /\ vcall.tape.params >= 1
     /\ vcall.dy # <<>>
     /\ AllZero(vcall.dy))
        => /\ Len(vjp) = vcall.tape.params
           /\ \A k \in 1 .. Len(vjp) : vjp[k] = 0

\* C9: with no trainable parameter or an empty dy, vectorJacobianProduct
\* leaves vjp empty whatever it held before, and the callable of the deferred
\* variant returns an empty vector.
C9_DegenerateGivesEmpty ==
    (/\ vcall.api \in {"vectorJacobianProduct", "vectorJacobianProductFunc"}
     /\ (vcall.tape.params = 0 \/ vcall.dy = <<>>))
        => /\ voutcome = OK
           /\ vjp = <<>>

\* C9 happens: vectorJacobianProduct is given an empty dy, a tape with a
\* trainable parameter and a vjp that still holds entries.
C9_Witness ==
    /\ vcall.api = "vectorJacobianProduct"
    /\ vcall.dy = <<>>
    /\ vcall.tape.params >= 1
    /\ vcall.vjp0 # <<>>
    /\ vjp = <<>>

DirectVJPCall == vcall.api \in {"computeVJP", "_computeVJP", "vectorJacobianProduct"}

\* The call reported the gradient-size error and left vjp as it was.
GradSizeError == voutcome = InvalidGradSize /\ vjp = vcall.vjp0

\* C10 as claimed: every VJP entry point reports an error, and produces no
\* result, whenever the length of dy differs from the number of observables,
\* an empty dy and an all-zero dy included.
C10_AnyMismatchFails ==
    (DirectVJPCall /\ Len(vcall.dy) # vcall.tape.obs) => GradSizeError

\* The call took none of the shortcuts that come before the length check.
PastShortcuts ==
    /\ vcall.dy # <<>>
    /\ vcall.api = "computeVJP" => vcall.tape.obs >= 1
    /\ vcall.api = "_computeVJP" => vcall.tape.obs * vcall.tape.params >= 1
    /\ vcall.api = "vectorJacobianProduct" =>
          /\ vcall.tape.params >= 1
          /\ ~AllZero(vcall.dy)
          /\ vcall.tape.obs >= 1

\* C10 amended: the entry points report the error, and leave vjp as it was,
\* whenever the length of dy differs from the number of observables and none
\* of the shortcuts applies: dy is not empty, the Jacobian is not empty, and
\* for vectorJacobianProduct the tape has a trainable parameter and dy is not
\* all zero.
C10_MismatchPastShortcutsFails ==
    (DirectVJPCall /\ PastShortcuts /\ Len(vcall.dy) # vcall.tape.obs)
        => GradSizeError

\* C10 happens: vectorJacobianProduct built the Jacobian and then refused a dy
\* of the wrong length.
C10_Witness ==
    /\ vcall.api = "vectorJacobianProduct"
    /\ PastShortcuts
    /\ Len(vcall.dy) # vcall.tape.obs
    /\ adjointCalls = 1
    /\ vcall.vjp0 # <<>>
    /\ GradSizeError

\* The sum over the first i observables of dy[i] * J[i][j].
RECURSIVE Contract(_, _, _, _)
Contract(dy, J, j, i) ==
    IF i = 0 THEN 0 ELSE dy[i] * J[i][j] + Contract(dy, J, j, i - 1)

\* C11: for a Jacobian J of m >= 1 rows and n columns and a dy of length m,
\* computeVJP produces a vector of length n whose j-th entry is the sum over
\* i of dy[i] * J[i][j], and the row-major flattening holds J[i][j] at
\* position i*n + j.
C11_VJPIsContraction ==
    LET J == TapeJacobian(vcall.tape)
        m == vcall.tape.obs
        n == vcall.tape.params
    IN  /\ (/\ vcall.api = "computeVJP"
            /\ m >= 1
            /\ Len(vcall.dy) = m)
              => /\ voutcome = OK
                 /\ Len(vjp) = n
                 /\ \A j \in 1 .. n : vjp[j] = Contract(vcall.dy, J, j, m)
        /\ vcall.api = "_computeVJP"
              => /\ Len(jac) = m * n
                 /\ \A i \in 0 .. m - 1 : \A j \in 0 .. n - 1 :
                       jac[i * n + j + 1] = J[i + 1][j + 1]

\* C11 happens: a Jacobian of two rows and two columns is contracted with a
\* dy that has no zero entry, over a vjp that still held an entry.
C11_Witness ==
    /\ vcall.api = "computeVJP"
    /\ vcall.tape.obs = 2
    /\ vcall.tape.params = 2
    /\ vcall.dy = <<1, 1>>
    /\ vcall.vjp0 # <<>>
    /\ voutcome = OK
    /\ Len(vjp) = 2
    /\ vjp[1] # vjp[2]

\* C12: invoking the callable returned by vectorJacobianProductFunc yields the
\* vector that vectorJacobianProduct produces for the same tape, dy and
\* apply_operations, in the empty shortcut, the all-zero shortcut and the full
\* Jacobian build plus contraction.
C12_DeferredEqualsEager ==
    vcall.api = "vectorJacobianProductFunc"
        => \A v0 \in StaleVectors, apply_operations \in BOOLEAN :
              LET eager == vectorJacobianProduct(
                               v0, StaleMatrix(vcall.tape.obs, vcall.tape.params),
                               vcall.dy, vcall.tape, apply_operations)
              IN  /\ voutcome = eager.outcome
                  /\ vjp = eager.vjp

\* The call took one of the two shortcuts of vectorJacobianProduct.
DegenerateShortcut ==
    /\ vcall.api = "vectorJacobianProduct"
    /\ \/ vcall.tape.params = 0
       \/ vcall.dy = <<>>
       \/ AllZero(vcall.dy)

\* C13: in both shortcuts of vectorJacobianProduct (no trainable parameter or
\* empty dy; all-zero dy) adjointJacobianTape is not called and the caller's
\* jac is left exactly as it was.
C13_ShortcutsSkipJacobian ==
    DegenerateShortcut => /\ adjointCalls = 0
                          /\ jac = vcall.jac0

\* C13 happens: an all-zero dy over a tape with parameters and observables,
\* with a jac that holds entries the Jacobian of the tape would replace.
C13_Witness ==
    /\ DegenerateShortcut
    /\ vcall.dy # <<>>
    /\ vcall.tape.params >= 1
    /\ vcall.tape.obs >= 1
    /\ jac # TapeJacobian(vcall.tape)
    /\ jac = vcall.jac0
    /\ voutcome = OK

----------------------------------------------------------------------------
(* Properties of the managed state vector *)

\* C14: for every qubit count n, a state vector created with create(n) has
\* exactly 2^n amplitudes, (1,0) at index 0 and (0,0) at every other index.
C14_CreateIsZeroState ==
    scall.api = "create"
        => /\ soutcome = OK
           /\ alive
           /\ num_qubits_ = scall.num_qubits
           /\ Len(data_) = 2 ^ scall.num_qubits
           /\ data_[1] = 1
           /\ \A k \in 2 .. Len(data_) : data_[k] = 0

\* C14 happens: a state vector of at least one qubit has just been created.
C14_Witness ==
    /\ scall.api = "create"
    /\ scall.num_qubits >= 1
    /\ alive
    /\ Len(data_) >= 2
    /\ data_[1] = 1

\* The last call was setBasisState with an index inside the buffer.
SetBasisInRange ==
    /\ scall.api = "setBasisState"
    /\ scall.index < Len(scall.data0)

\* C15: for every index < length, whatever the buffer held before,
\* setBasisState(index) leaves (1,0) at index and (0,0) at every other
\* position, so exactly one amplitude is non-zero.
C15_SetBasisStateOneHot ==
    SetBasisInRange
        => /\ soutcome = OK
           /\ alive
           /\ Len(data_) = Len(scall.data0)
           /\ \A k \in 1 .. Len(data_) :
                 data_[k] = IF k = scall.index + 1 THEN 1 ELSE 0
           /\ Cardinality({k \in 1 .. Len(data_) : data_[k] # 0}) = 1

\* C15 happens: the target is not index 0 and the buffer held a non-zero
\* amplitude elsewhere, left there by an earlier mutation.
C15_Witness ==
    /\ SetBasisInRange
    /\ scall.index >= 1
    /\ scall.data0[1] = 2
    /\ soutcome = OK
    /\ data_[scall.index + 1] = 1
    /\ data_[1] = 0

\* C16: setBasisState(index) with index >= length is reported to the caller
\* as a precondition violation at call time, and no memory outside the
\* amplitude buffer is written.
C16_OutOfRangeBasisReported ==
    (/\ scall.api = "setBasisState"
     /\ scall.index >= Len(scall.data0))
        => /\ soutcome = Aborted
           /\ outside = {}
           /\ sub = {}

\* The last call was one of the four mutators.
MutatorCall ==
    scall.api \in {"setBasisState", "setStateVector", "resetStateVector", "updateData"}

\* C17: in every reachable state of a state vector object the buffer length
\* is 2^numQubits for the qubit count fixed at construction; no
\* setBasisState, setStateVector, resetStateVector or updateData call,
\* successful or failing, changes the length.
C17_LengthIsPowerOfTwo ==
    alive => /\ Len(data_) = 2 ^ num_qubits_
             /\ MutatorCall => /\ Len(data_) = Len(scall.data0)
                               /\ num_qubits_ = scall.num_qubits0

\* C17 happens: a setStateVector call named an index past the end and the
\* object lived on with the length it had.
C17_Witness ==
    /\ alive
    /\ scall.api = "setStateVector"
    /\ \E k \in 1 .. Len(scall.indices) : scall.indices[k] >= Len(scall.data0)
    /\ Len(scall.data0) = 2
    /\ Len(data_) = 2

\* C18: updateData(buffer, length) fails when length differs from the current
\* length, leaving every amplitude and the length unchanged; when the lengths
\* are equal, position i holds buffer[i] for all i afterwards.
C18_UpdateDataChecksLength ==
    scall.api = "updateData"
        => IF Len(scall.buffer) # Len(scall.data0)
           THEN /\ soutcome = Aborted
                /\ alive
                /\ data_ = scall.data0
           ELSE /\ soutcome = OK
                /\ alive
                /\ Len(data_) = Len(scall.data0)
                /\ \A i \in 1 .. Len(data_) : data_[i] = scall.buffer[i]

\* C18 happens: a buffer one amplitude too long is refused by an object whose
\* amplitudes differ from the buffer's.
C18_Witness ==
    /\ scall.api = "updateData"
    /\ Len(scall.buffer) = Len(scall.data0) + 1
    /\ scall.buffer[1] # scall.data0[1]
    /\ soutcome = Aborted
    /\ data_ = scall.data0

\* The last call was setStateVector with lists of equal length and every
\* index inside the buffer.
SetStateVectorInRange ==
    /\ scall.api = "setStateVector"
    /\ Len(scall.indices) = Len(scall.values)
    /\ \A k \in 1 .. Len(scall.indices) : scall.indices[k] < Len(scall.data0)

\* The rounds of the last setStateVector call that named position pos.
RoundsAt(pos) == {k \in 1 .. Len(scall.indices) : scall.indices[k] = pos}

\* C19: setStateVector(indices, values) with lists of equal length and all
\* indices < length changes only the listed positions: a position not listed
\* keeps its amplitude, a listed position holds the value paired with the
\* last occurrence of its index.
C19_SetStateVectorFrame ==
    SetStateVectorInRange
        => /\ soutcome = OK
           /\ alive
           /\ outside = {}
           /\ Len(data_) = Len(scall.data0)
           /\ \A pos \in 0 .. Len(data_) - 1 :
                 IF RoundsAt(pos) = {}
                 THEN data_[pos + 1] = scall.data0[pos + 1]
                 ELSE \E k \in RoundsAt(pos) :
                         /\ \A l \in RoundsAt(pos) : l <= k
                         /\ data_[pos + 1] = scall.values[k]

\* C19 happens: one index is listed twice with two different values while an
\* unlisted position holds a non-zero amplitude.
C19_Witness ==
    /\ SetStateVectorInRange
    /\ scall.indices = <<0, 0>>
    /\ scall.values = <<1, 2>>
    /\ Len(data_) = 2
    /\ scall.data0[2] # 0
    /\ data_[1] = 2
    /\ data_[2] = scall.data0[2]

\* C20: constructing a state vector from a raw buffer whose length is not an
\* exact power of two fails and yields no usable object; for a length 2^n the
\* new object has numQubits = n and holds a copy of the supplied amplitudes.
C20_FromDataNeedsPowerOfTwo ==
    scall.api = "fromData"
        => IF \E n \in 0 .. Len(scall.buffer) : 2 ^ n = Len(scall.buffer)
           THEN /\ soutcome = OK
                /\ alive
                /\ 2 ^ num_qubits_ = Len(scall.buffer)
                /\ data_ = scall.buffer
           ELSE /\ soutcome = Aborted
                /\ ~alive

\* C20 happens: a buffer of three amplitudes is refused.
C20_Witness ==
    /\ scall.api = "fromData"
    /\ Len(scall.buffer) = 3
    /\ soutcome = Aborted
    /\ ~alive

----------------------------------------------------------------------------
(* Properties of batches and of the deferred callable *)

\* The buffer after the first k operations of the last batch, each applied
\* on its own, in list order, to what the one before left.
RECURSIVE PrefixApplied(_)
PrefixApplied(k) ==
    IF k = 0 THEN pre
    ELSE applyOperation_str(call.kernel, PrefixApplied(k - 1), call.target[k],
                            call.wires[k], FALSE, <<>>).data

\* The last applyOperations got past its length check.
BatchRan == BatchCall /\ outcome # ListLengths

\* C26: applyOperations applies the batch strictly in list order, and when the
\* i-th operation fails the buffer holds exactly the result of operations
\* 0..i-1 in order: nothing is rolled back and no later operation is applied.
C26_BatchInOrderNoRollback ==
    BatchRan =>
        LET k == Len(invoked)
        IN  /\ k <= Len(call.target)
            /\ \A j \in 1 .. k :
                  /\ call.target[j] \in DOMAIN str_to_gates_
                  /\ invoked[j].f = gates_[<<str_to_gates_[call.target[j]], call.kernel>>]
                  /\ invoked[j].wires = call.wires[j]
            /\ data = PrefixApplied(k)
            /\ outcome = OK <=> k = Len(call.target)
            /\ outcome \in {NotRegistered, OutOfRange} =>
                  applyOperation_str(call.kernel, PrefixApplied(k), call.target[k + 1],
                                     call.wires[k + 1], FALSE, <<>>).outcome = outcome

\* C26 happens: the first operation of a batch of two ran and changed the
\* buffer, the second was refused.
C26_Witness ==
    /\ BatchRan
    /\ Len(call.target) = 2
    /\ Len(invoked) = 1
    /\ outcome = NotRegistered
    /\ data # pre
    /\ ub = {}

\* C30: when the callable returned by vectorJacobianProductFunc is invoked,
\* every value it reads (the trainable-parameter count, dy, the tape, the
\* apply_operations flag) still exists: in none of its three branches does
\* it read a variable whose lifetime ended when vectorJacobianProductFunc
\* returned.
C30_CallableReadsLiveValues ==
    vcall.api = "vectorJacobianProductFunc" => vub = {}

----------------------------------------------------------------------------
(* Properties of the generator table and of registration *)

\* The last call was an applyGenerator, by identifier or by name.
GeneratorCall == call.api \in {"applyGenerator_op", "applyGenerator_str"}

\* The names str_to_gntrs_ knows: the generator names without their prefix.
KnownGenerators == {Str_RX, Str_RZ}

\* The generator identifier the last applyGenerator asked for.
RequestedGenerator ==
    IF call.api = "applyGenerator_op" THEN call.target
    ELSE CHOOSE i \in GeneratorOperation :
            generator_names[i + 1] = <<i, Str_Generator \o call.target>>

\* The last applyGenerator named a generator the dispatcher knows.
GeneratorResolved ==
    GeneratorCall /\ (call.api = "applyGenerator_str" => call.target \in KnownGenerators)

\* C22: applyGenerator, by name or by identifier, consults only the generator
\* table: it invokes exactly once the callable registered under (generator,
\* variant) and returns exactly the scale value that callable returned,
\* whatever the gate and matrix tables hold; with no entry under that key it
\* fails without invoking any callable.
C22_GeneratorTableOnly ==
    /\ GeneratorResolved =>
        LET key == <<RequestedGenerator, call.kernel>>
        IN  IF key \in DOMAIN generators_
            THEN /\ outcome = OK
                 /\ invoked = <<Invocation(generators_[key], call.wires, call.inverse)>>
                 /\ returned = ScaleOf(generators_[key])
                 /\ data = CallGeneratorFunc(generators_[key], pre, call.wires,
                                             call.inverse)
            ELSE /\ outcome = NotRegistered
                 /\ invoked = <<>>
                 /\ returned = NoValue
                 /\ data = pre
    /\ (GeneratorCall /\ ~GeneratorResolved) =>
        /\ outcome = OutOfRange
        /\ invoked = <<>>
        /\ returned = NoValue
        /\ data = pre

\* C22 happens: a generator was dispatched by name and returned its scale
\* while the gate table held another callable under the same pair.
C22_Witness ==
    /\ call.api = "applyGenerator_str"
    /\ outcome = OK
    /\ returned # NoValue
    /\ <<RequestedGenerator, call.kernel>> \in DOMAIN gates_
    /\ gates_[<<RequestedGenerator, call.kernel>>].impl # invoked[1].f.impl

\* The last call was a registration.
RegistrationCall ==
    call.api \in {"registerGateOperation", "registerGeneratorOperation",
                  "registerMatrixOperation"}

\* The table the last registration was made in.
RegistrationTable ==
    IF call.api = "registerGateOperation" THEN gates_
    ELSE IF call.api = "registerGeneratorOperation" THEN generators_
    ELSE matrices_

\* A registration under a key that had an entry, handing over another callable.
DuplicateRegistration ==
    RegistrationCall /\ call.had /\ RegistrationTable[<<call.target, call.kernel>>] # call.func

\* C29: registering a callable under a key that already has an entry leaves
\* the table unchanged: the first registered callable stays, isRegistered
\* stays true, and later dispatches for that key invoke the first callable.
C29_FirstRegistrationStays ==
    [][/\ \A k \in DOMAIN gates_ : k \in DOMAIN gates_' /\ gates_'[k] = gates_[k]
       /\ \A k \in DOMAIN generators_ :
             k \in DOMAIN generators_' /\ generators_'[k] = generators_[k]
       /\ \A k \in DOMAIN matrices_ :
             k \in DOMAIN matrices_' /\ matrices_'[k] = matrices_[k]
       /\ (RegistrationCall' /\ call'.had) =>
             UNCHANGED <<gates_, generators_, matrices_>>
       /\ (GeneratorResolved' /\ <<RequestedGenerator', call'.kernel>> \in DOMAIN generators_) =>
             invoked' = <<Invocation(generators_[<<RequestedGenerator', call'.kernel>>],
                                     call'.wires, call'.inverse)>>]_vars

\* C29 happens: a second, different callable was handed in for a key of the
\* generator table.
C29_Witness ==
    /\ call.api = "registerGeneratorOperation"
    /\ DuplicateRegistration

\* What removeGeneratorPrefix is said to return: the name without the prefix
\* it begins with, the name itself when it does not begin with the prefix.
WithoutPrefix(name) ==
    IF Len(name) >= Len(Str_Generator)
       /\ SubSeq(name, 1, Len(Str_Generator)) = Str_Generator
    THEN SubSeq(name, Len(Str_Generator) + 1, Len(name))
    ELSE name

\* C28: the lookup name of a generator is its name with the prefix
\* "Generator" removed once from the front, whatever follows the prefix; a
\* name that does not begin with the prefix is used unchanged.
C28_PrefixRemovedOnce ==
    stripped = WithoutPrefix(gntr_name)

\* The last call was a dispatch.
DispatchCall ==
    call.api \in {"applyOperation_str", "applyOperation_op", "applyOperations",
                  "applyOperations_noparams", "applyMatrix_ptr", "applyMatrix_vec",
                  "applyGenerator_op", "applyGenerator_str"}

\* Every key registerAllAvailableKernels registers has its entry.
AllRegistered ==
    \A i \in 1 .. Len(registerAllAvailableKernels) :
        LET r == registerAllAvailableKernels[i]
            key == <<r.op, r.kernel>>
            table == IF r.api = "registerGateOperation" THEN gates_
                     ELSE IF r.api = "registerGeneratorOperation" THEN generators_
                     ELSE matrices_
        IN  key \in DOMAIN table /\ table[key] = r.func

----------------------------------------------------------------------------
(* Properties of the gate kernels *)

\* The index whose bits on wires 0, 1 and 2 are set.
Wires012 == Pow2(NumQubits - 1) + Pow2(NumQubits - 2) + Pow2(NumQubits - 3)

\* C23: from |0...0>, Hadamard on wire 0, then CNOT on wires (0, 1), then CNOT
\* on wires (1, 2) yields amplitude 1/sqrt(2) at index 0 and at the index with
\* the bits of wires 0, 1, 2 set (7 for three qubits) and 0 everywhere else.
C23_GHZ ==
    (states[1] = ZeroState /\ applied = GHZCircuit) =>
        \A i \in DOMAIN st :
            st[i] = IF i \in {0, Wires012} THEN INVSQRT2 ELSE AmpZero

\* C23 happens: the three gates were applied to |0...0>.
C23_Witness ==
    /\ states[1] = ZeroState
    /\ applied = GHZCircuit
    /\ st[0] = INVSQRT2

\* The last two gates were the same SWAP.
SwappedTwice ==
    /\ Len(applied) >= 2
    /\ applied[Len(applied)].gate = "SWAP"
    /\ applied[Len(applied) - 1] = applied[Len(applied)]

\* C24: for every buffer and every pair of distinct wires (a, b), applying
\* SWAP on (a, b) twice in succession returns the buffer to exactly its
\* original contents.
C24_SwapTwiceIsIdentity ==
    SwappedTwice => st = states[Len(states) - 2]

\* C24 happens: a buffer that the first SWAP changed was swapped twice.
C24_Witness ==
    /\ SwappedTwice
    /\ states[Len(states) - 1] # states[Len(states) - 2]
    /\ states[1] = CountingState
    /\ Len(applied) = Len(GHZCircuit)

\* C25: wire w of an n-qubit buffer addresses bit n-1-w of the amplitude
\* index: PauliX on wire w of |0...0> moves the unit amplitude from index 0
\* to index 2^(n-1-w) and leaves every other amplitude zero.
C25_WireIsBitFromTheTop ==
    (states[1] = ZeroState /\ Len(applied) = 1 /\ applied[1].gate = "PauliX") =>
        \A i \in DOMAIN st :
            st[i] = IF i = Pow2(NumQubits - 1 - applied[1].wires[1])
                    THEN AmpOne ELSE AmpZero

\* C25 happens: PauliX was applied to the last wire of |0...0>.
C25_Witness ==
    /\ states[1] = ZeroState
    /\ applied = <<Gate("PauliX", <<NumQubits - 1>>)>>
    /\ st[1] = AmpOne

----------------------------------------------------------------------------
(* Properties of concurrent dispatch *)

====
